---- MODULE Spec2Model ----
(***************************************************************************)
(* Model of the Spyfall game session of bot-party: setup, question rounds, *)
(* mid-game accusation, voluntary spy guess, final vote, tally, final      *)
(* guess and final score.                                                  *)
(*                                                                         *)
(* Strings that the code parses or compares (player names, location        *)
(* names, controller replies) are sequences of one-character strings, so   *)
(* that trim(), toLowerCase() and the parseField regular expression are    *)
(* computed character by character.  Role names are never parsed and are   *)
(* plain strings.                                                          *)
(***************************************************************************)
EXTENDS Integers, Sequences, FiniteSets, TLC

(***************************************************************************)
(* Bounds of the model.                                                    *)
(***************************************************************************)
MaxPlayers == 3
MaxRounds == 2
MaxSetupPlayers == 6
MaxReactors == 3
MaxParamLen == 3
MaxEvents == 3
MaxIds == 4

(* server: "Ensure at least 2 players" *)
MinPlayers == 2

(***************************************************************************)
(* Characters and strings.                                                 *)
(***************************************************************************)
(* upper-case letters and their lower-case forms *)
lowerOf ==
    [A |-> "a", B |-> "b", C |-> "c", D |-> "d", E |-> "e", F |-> "f", G |->
     "g", H |-> "h", I |-> "i", J |-> "j", K |-> "k", L |-> "l", M |-> "m",
     N |-> "n", O |-> "o", P |-> "p", Q |-> "q", R |-> "r", S |-> "s", T |->
     "t", U |-> "u", V |-> "v", W |-> "w", X |-> "x", Y |-> "y", Z |-> "z"]

(* lower-case letters and their upper-case forms *)
upperOf ==
    [a |-> "A", b |-> "B", c |-> "C", d |-> "D", e |-> "E", f |-> "F", g |->
     "G", h |-> "H", i |-> "I", j |-> "J", k |-> "K", l |-> "L", m |-> "M",
     n |-> "N", o |-> "O", p |-> "P", q |-> "Q", r |-> "R", s |-> "S", t |->
     "T", u |-> "U", v |-> "V", w |-> "W", x |-> "X", y |-> "Y", z |-> "Z"]

Digits == <<"0", "1", "2", "3", "4", "5", "6", "7", "8", "9">>

(* the null / undefined value of a string-typed expression *)
Null == <<"null">>

(* String.prototype.toLowerCase, one character *)
toLowerChar(c) == IF c \in DOMAIN lowerOf THEN lowerOf[c] ELSE c

toUpperChar(c) == IF c \in DOMAIN upperOf THEN upperOf[c] ELSE c

toLowerCase(s) == [i \in 1..Len(s) |-> toLowerChar(s[i])]

toUpperCase(s) == [i \in 1..Len(s) |-> toUpperChar(s[i])]

(* the characters matched by \s and removed by trim() *)
isSpace(c) == c \in {" ", "\t", "\n", "\r"}

(* String.prototype.trim *)
trim(s) ==
    LET keep == {i \in 1..Len(s) : ~isSpace(s[i])}
    IN IF keep = {} THEN <<>>
       ELSE SubSeq(s, CHOOSE i \in keep : \A j \in keep : i <= j,
                      CHOOSE i \in keep : \A j \in keep : i >= j)

normalizeNameNoLower(s) == trim(s)

normalizeName(s) == toLowerCase(trim(s))

(* does key (case-insensitively) followed by ":" start at position i of text *)
keyAt(key, text, i) ==
    /\ i + Len(key) <= Len(text)
    /\ \A k \in 1..Len(key) : toLowerChar(text[i + k - 1]) = toLowerChar(key[k])
    /\ text[i + Len(key)] = ":"

(* the case-insensitive regular expression "KEY:", optional whitespace, rest
   of the line: leftmost match, the whitespace run is greedy and may span
   line breaks, the capture runs to the end of the line and is trimmed; no
   match gives the empty string *)
parseField(key, text) ==
    LET starts == {i \in 1..Len(text) : keyAt(key, text, i)}
    IN IF starts = {} THEN <<>>
       ELSE LET i == CHOOSE x \in starts : \A y \in starts : x <= y
                after == i + Len(key) + 1
                nonSpace == {j \in after..Len(text) : ~isSpace(text[j])}
            IN IF nonSpace = {} THEN <<>>
               ELSE LET b == CHOOSE x \in nonSpace : \A y \in nonSpace : x <= y
                        nls == {j \in b..Len(text) : text[j] = "\n"}
                        e == IF nls = {} THEN Len(text)
                             ELSE (CHOOSE x \in nls : \A y \in nls : x <= y) - 1
                    IN trim(SubSeq(text, b, e))

(***************************************************************************)
(* Location data.                                                          *)
(***************************************************************************)
Airplane == <<"A", "i", "r", "p", "l", "a", "n", "e">>

LOCATIONS ==
    << [location |-> Airplane, roles |-> <<"Captain", "Co-Pilot", "Mechanic">>] >>

(***************************************************************************)
(* Random utilities: the set of values the call can return.                *)
(***************************************************************************)
pickRandom(arr) == {arr[i] : i \in 1..Len(arr)}

safePickRandomNone(arr, fallback) == {}

(* arr.length ? pickRandom(arr) : fallback *)
safePickRandom(arr, fallback) == IF Len(arr) > 0 THEN pickRandom(arr) ELSE {fallback}

(* shuffle: every permutation of arr *)
shuffle(arr) ==
    {[i \in 1..Len(arr) |-> arr[f[i]]] :
        f \in {g \in [1..Len(arr) -> 1..Len(arr)] :
                  \A a, b \in 1..Len(arr) : a # b => g[a] # g[b]}}

(* Array.prototype.slice(0, n) *)
slice0(arr, n) == SubSeq(arr, 1, IF n < Len(arr) THEN (IF n < 0 THEN 0 ELSE n) ELSE Len(arr))

(***************************************************************************)
(* Players.                                                                *)
(***************************************************************************)
You == <<"Y", "o", "u">>

AgentName(i) == <<"A", "g", "e", "n", "t">> \o <<Digits[i + 1]>>

(***************************************************************************)
(* Controller replies the model draws from.                                *)
(***************************************************************************)
Bob == <<"B", "o", "b">>

(* a name as a controller may spell it: upper case, surrounded by blanks *)
Shout(name) == <<" ">> \o toUpperCase(name) \o <<" ">>

(* names a controller may nominate: each player's name exactly, each
   player's name shouted, the empty string and the name of nobody *)
NameInputs(ps) ==
    {ps[i].name : i \in 1..Len(ps)} \cup {Shout(ps[i].name) : i \in 1..Len(ps)}
        \cup {<<>>, Bob}

GuessExact == <<"G", "U", "E", "S", "S", ":", " ", "A", "i", "r", "p", "l", "a", "n", "e">>
GuessShout == <<"g", "u", "e", "s", "s", ":", " ", " ", "A", "I", "R", "P", "L", "A", "N", "E",
                " ", " ", "\n", "R", "E", "A", "S", "O", "N", ":", " ", "x">>
GuessThe == <<"G", "U", "E", "S", "S", ":", " ", "t", "h", "e", " ", "A", "i", "r", "p", "l", "a",
              "n", "e", " ">>
GuessBank == <<"G", "U", "E", "S", "S", ":", " ", "B", "a", "n", "k">>

(* replies of guessLocation: null, empty, and texts with or without a
   GUESS field *)
GuessInputs == {Null, <<>>, GuessExact, GuessShout, GuessThe, GuessBank}

(* x ?? "" *)
orEmpty(x) == IF x = Null THEN <<>> ELSE x

VoteKey == <<"V", "O", "T", "E">>

(* replies of vote(): a VOTE field naming a player exactly, a lower-case
   vote field naming a player loudly and followed by a WHY line, no field
   at all, the empty reply, a field naming nobody *)
VoteInputs(ps) ==
    {<<"V", "O", "T", "E", ":", " ">> \o ps[i].name : i \in 1..Len(ps)}
    \cup {<<"v", "o", "t", "e", ":">> \o Shout(ps[i].name) \o <<"\n", "W", "H", "Y", ":", " ", "x">> :
             i \in 1..Len(ps)}
    \cup {<<>>, <<"W", "H", "Y", ":", " ", "n", "o", "n", "e">>,
          <<"V", "O", "T", "E", ":", " ">> \o Bob}

GuessKey == <<"G", "U", "E", "S", "S">>

(* every player name a session of the model can have *)
Roster == <<[name |-> You]>> \o [i \in 1..MaxPlayers |-> [name |-> AgentName(i - 1)]]

(* parseField("VOTE", raw) of every vote reply, computed once *)
voteField == [raw \in VoteInputs(Roster) |-> parseField(VoteKey, raw)]

(* parseField("GUESS", raw ?? "") of every guess reply, computed once *)
guessField == [raw \in GuessInputs |-> parseField(GuessKey, orEmpty(raw))]

(* the texts normalizeName is applied to *)
NormalizedTexts ==
    {LOCATIONS[i].location : i \in 1..Len(LOCATIONS)}
    \cup {Roster[i].name : i \in 1..Len(Roster)}
    \cup NameInputs(Roster)
    \cup {voteField[raw] : raw \in VoteInputs(Roster)}
    \cup {guessField[raw] : raw \in GuessInputs}

(* normalizeName of each of them, computed once *)
normalizedName == [s \in NormalizedTexts |-> normalizeName(s)]

(* the result of Array.prototype.find when nothing matches *)
NoPlayer == [id |-> Null, name |-> Null, isHuman |-> FALSE, secret |-> [kind |-> "NONE"]]

(* Array.prototype.find with the predicate "normalised name equals n" *)
findByName(players, n) ==
    LET hits == {i \in 1..Len(players) : normalizedName[players[i].name] = n}
    IN IF hits = {} THEN NoPlayer
       ELSE players[CHOOSE i \in hits : \A j \in hits : i <= j]

findSpy(players) ==
    LET hits == {i \in 1..Len(players) : players[i].secret.kind = "SPY"}
    IN IF hits = {} THEN NoPlayer
       ELSE players[CHOOSE i \in hits : \A j \in hits : i <= j]

(* roles.pop() || "Visitor" for the k-th civilian dealt, k = 1, 2, ... *)
popRole(roles, k) == IF k <= Len(roles) THEN roles[Len(roles) - k + 1] ELSE "Visitor"

(* the players built by the loop of setupGame *)
dealPlayers(numPlayers, includeHuman, spyIndex, packLocation, roles) ==
    [k \in 1..numPlayers |->
        LET i == k - 1
            isHuman == includeHuman /\ i = 0
            name == IF isHuman THEN You ELSE AgentName(i)
            civBefore == Cardinality({j \in 0..(i - 1) : j # spyIndex})
            secret == IF i = spyIndex
                      THEN [kind |-> "SPY"]
                      ELSE [kind |-> "CIVILIAN", location |-> packLocation,
                            role |-> popRole(roles, civBefore + 1)]
        IN [id |-> name, name |-> name, isHuman |-> isHuman, secret |-> secret]]

(* setupGame: every (pack, players) it can return for a configuration *)
setupGame(numPlayers, includeHuman) ==
    UNION {{[pack |-> pk,
             players |-> dealPlayers(numPlayers, includeHuman, spyIndex, pk.location,
                                     slice0(sh, numPlayers - 1))] :
               spyIndex \in 0..(numPlayers - 1), sh \in shuffle(pk.roles)} :
           pk \in pickRandom(LOCATIONS)}

(***************************************************************************)
(* Questions, answers and action choice.                                   *)
(***************************************************************************)
QuestionText == <<"W", "h", "a", "t", "?">>

AnswerInputs == {<<"A", "N", "S", "W", "E", "R", ":", " ", "o", "k">>}

(* parseField("ANSWER", rawAnswer), for every reply *)
answerField == [raw \in AnswerInputs |-> parseField(<<"A", "N", "S", "W", "E", "R">>, raw)]

(* replies of an AI controller's model to the action prompt *)
ActionInputs ==
    {<<"A", "C", "T", "I", "O", "N", ":", " ", "q", "u", "e", "s", "t", "i", "o", "n">>,
     <<"A", "C", "T", "I", "O", "N", ":", " ", "I", " ", "G", "U", "E", "S", "S", " ", "n", "o", "w">>,
     <<"A", "C", "T", "I", "O", "N", ":", " ", "a", "c", "c", "u", "s", "e">>,
     <<"a", "c", "t", "i", "o", "n", ":", " ", "V", "o", "t", "e">>,
     <<>>}

(* what a human types at the action prompt *)
HumanActionInputs == {<<"Q">>, <<" ", "g">>, <<"a", " ">>, <<>>}

(* String.prototype.includes *)
includes(s, sub) ==
    \E i \in 1..(Len(s) - Len(sub) + 1) :
        \A k \in 1..Len(sub) : s[i + k - 1] = sub[k]

(* parseField("ACTION", raw).toLowerCase() and the three includes() tests
   made on it, for every reply *)
actionRawOf ==
    [raw \in ActionInputs |->
        LET actionRaw == toLowerCase(parseField(<<"A", "C", "T", "I", "O", "N">>, raw))
        IN [guess |-> includes(actionRaw, <<"g", "u", "e", "s", "s">>),
            accuse |-> includes(actionRaw, <<"a", "c", "c", "u", "s", "e">>),
            vote |-> includes(actionRaw, <<"v", "o", "t", "e">>)]]

aiChooseActionUnchecked(raw, self, canAccuse) ==
    IF actionRawOf[raw].guess
    THEN "guess"
    ELSE IF actionRawOf[raw].accuse \/ actionRawOf[raw].vote
    THEN "vote"
    ELSE "question"

(* AIController.chooseAction: the action parsed from the model's reply *)
aiChooseAction(raw, self, canAccuse) ==
    IF actionRawOf[raw].guess /\ self.secret.kind = "SPY"
    THEN "guess"
    ELSE IF (actionRawOf[raw].accuse \/ actionRawOf[raw].vote) /\ canAccuse
    THEN "vote"
    ELSE "question"

(* input.trim().toUpperCase(), for everything typed *)
humanChoiceOf == [input \in HumanActionInputs |-> toUpperCase(trim(input))]

(* HumanController.chooseAction *)
humanChooseAction(input, self, canAccuse) ==
    LET choice == humanChoiceOf[input]
    IN IF choice = <<"G">> /\ self.secret.kind = "SPY" THEN "guess"
       ELSE IF choice = <<"A">> /\ canAccuse THEN "vote"
       ELSE "question"

(* the actions a player's controller can return from chooseAction *)
chooseAction(self, canAccuse) ==
    IF self.isHuman
    THEN {humanChooseAction(x, self, canAccuse) : x \in HumanActionInputs}
    ELSE {aiChooseAction(x, self, canAccuse) : x \in ActionInputs}

(***************************************************************************)
(* Target resolution.                                                      *)
(***************************************************************************)
isIllegalSelfOnly(p, selfId, lastAskerId) == p.id = selfId

(* the predicate isIllegal of resolveOtherPlayer; an absent lastAskerId is
   Null, and like the empty string it is falsy *)
isIllegal(p, selfId, lastAskerId) ==
    p.id = selfId \/ (lastAskerId # Null /\ lastAskerId # <<>> /\ p.id = lastAskerId)

candidateIsValidNever(candidate, selfId, lastAskerId) == FALSE

(* candidate && !isIllegal(candidate) *)
candidateIsValid(candidate, selfId, lastAskerId) ==
    candidate # NoPlayer /\ ~isIllegal(candidate, selfId, lastAskerId)

(* resolveOtherPlayer: the set of players the call can return *)
resolveOtherPlayer(ps, targetName, selfId, lastAskerId) ==
    LET normalized == normalizedName[targetName]
        candidate == findByName(ps, normalized)
        legal(p) == ~isIllegal(p, selfId, lastAskerId)
        notSelf(p) == p.id # selfId
        validOptions == SelectSeq(ps, legal)
    IN IF candidateIsValid(candidate, selfId, lastAskerId)
       THEN {candidate}
       ELSE IF Len(validOptions) = 0
       THEN safePickRandom(SelectSeq(ps, notSelf), ps[1])
       ELSE safePickRandom(validOptions, validOptions[1])

(***************************************************************************)
(* State.                                                                  *)
(***************************************************************************)
NotEnded == [ended |-> FALSE]

(* a controller call: the operation, the player whose controller is called,
   the whenCaught argument of guessLocation, the yes/no reply of a juror *)
Call(op, who, whenCaught, reply) ==
    [op |-> op, who |-> who, whenCaught |-> whenCaught, reply |-> reply]

(* a jury call: the juror asked, the defense handed over, the yes/no reply *)
JuryCall(who, defense, reply) ==
    [op |-> "voteOnAccusation", who |-> who, whenCaught |-> FALSE, reply |-> reply,
     defense |-> defense]

(* no defense has been produced *)
NoDefense == "none"

(* defenseResult.defense: a text, or the empty text *)
DefenseInputs == {"It was not me", ""}

defenseHeardIsReason(defense, reason) == "No reason given"

(* the defense argument of voteOnAccusation: defenseResult.defense *)
defenseHeard(defense, reason) == defense

NoResult == [winner |-> "none", reason |-> "none"]

VARIABLES
    pc,            \* where run() stands
    config,        \* the GameConfig of the session
    pack,          \* the location pack picked by setupGame
    players,       \* Player[], in roster order
    turns,         \* the transcript, Turn[]
    roundCount,    \* runQuestionRounds: rounds started
    currentAsker,  \* runQuestionRounds: the player whose turn it is
    lastAsker,     \* runQuestionRounds: the previous asker, or NoPlayer
    earlyEnd,      \* the EarlyEndResult of the question rounds
    accuser,       \* handleAccusation: the accusing player
    accusation,    \* handleAccusation: the targetName returned by accuse
    accused,       \* handleAccusation: the resolved accused, or NoPlayer
    voters,        \* handleAccusation: jurors who have not voted yet
    yesVotes,      \* handleAccusation: yes count
    noVotes,       \* handleAccusation: no count
    defenseResult, \* handleAccusation: the defense of the accused, or NoDefense
    accOutcome,    \* how the last handleAccusation returned
    accusations,   \* number of handleAccusation calls of the session
    calls,         \* controller calls of the current phase, in order
    votes,         \* runVotingPhase: the tally Map, in insertion order
    voteLog,       \* runVotingPhase: the final vote of each player so far
    accusedName,   \* tallyVotes: the accused, or Null
    isTie,         \* tallyVotes: tie flag
    guessRaw,      \* the last reply of guessLocation
    spyGuessedRight, \* runSpyGuessIfEligible: its result
    result,        \* the announced outcome
    unanimous,     \* history: every civilian's final vote named the spy
    running,       \* SpyfallGame.running
    rl,            \* SpyfallGame.rl: "null" or "open"
    rlClosed,      \* close() has been called on the input interface
    agents,        \* run(): the agents handed over by setupGame
    created,       \* the agents setupGame has created for the session
    cleaned,       \* the agents whose cleanup() has been called
    error,         \* the error that has unwound run()'s try block, or "none"
    reactPc,       \* where a call of collectReactions stands
    reactors,      \* collectReactions: its reactors argument
    reactions,     \* the settled react() promises, by position in reactors
    completionOrder, \* history: positions in the order their react() settled
    reactLog,      \* the lines collectReactions has logged, in order
    inFlight,      \* the controller calls issued and not yet settled
    cursor,        \* the number of controller calls a loop has issued so far
    resolvedTarget, \* runQuestionRounds: its local target, or NoPlayer
    fnArgs,        \* the arguments of a function checked on its own
    fnOutcome      \* what that function has returned or thrown, or NotCalled

roundVars == <<turns, roundCount, currentAsker, lastAsker>>
accVars == <<accuser, accusation, accused, voters, yesVotes, noVotes, defenseResult,
             accOutcome, accusations>>
voteVars == <<votes, voteLog, accusedName, isTie, unanimous>>
lifeVars == <<running, rl, rlClosed, agents, created, cleaned, error>>
reactVars == <<reactPc, reactors, reactions, completionOrder, reactLog>>
tripVars == <<inFlight, cursor, resolvedTarget>>
fnVars == <<fnArgs, fnOutcome>>
vars == <<pc, config, pack, players, roundVars, earlyEnd, accVars, calls, voteVars,
          guessRaw, spyGuessedRight, result, lifeVars, reactVars, tripVars, fnVars>>

NoPack == [location |-> Null, roles |-> <<>>]

NoConfig == [numPlayers |-> 0, includeHuman |-> FALSE, rounds |-> 0, allowEarlyVote |-> FALSE]

(* no call of collectReactions is under way *)
NoReactions ==
    /\ reactPc = "idle"
    /\ reactors = <<>>
    /\ reactions = <<>>
    /\ completionOrder = <<>>
    /\ reactLog = <<>>

(* the state of a SpyfallGame before run() *)
NewGame ==
    /\ pc = "start"
    /\ config = NoConfig
    /\ pack = NoPack
    /\ players = <<>>
    /\ turns = <<>>
    /\ roundCount = 0
    /\ currentAsker = NoPlayer
    /\ lastAsker = NoPlayer
    /\ earlyEnd = NotEnded
    /\ accuser = NoPlayer
    /\ accusation = Null
    /\ accused = NoPlayer
    /\ voters = <<>>
    /\ yesVotes = 0
    /\ noVotes = 0
    /\ accOutcome = "none"
    /\ defenseResult = NoDefense
    /\ accusations = 0
    /\ calls = <<>>
    /\ votes = <<>>
    /\ voteLog = <<>>
    /\ accusedName = Null
    /\ isTie = FALSE
    /\ unanimous = FALSE
    /\ guessRaw = Null
    /\ spyGuessedRight = FALSE
    /\ result = NoResult
    /\ running = FALSE
    /\ rl = "null"
    /\ rlClosed = FALSE
    /\ agents = <<>>
    /\ created = <<>>
    /\ cleaned = {}
    /\ error = "none"

(* no loop of controller calls is being followed call by call *)
NoTrips ==
    /\ inFlight = {}
    /\ cursor = 0
    /\ resolvedTarget = NoPlayer

NotCalled == [kind |-> "not called"]

(* no function is being checked on its own *)
NoFunction ==
    /\ fnArgs = NotCalled
    /\ fnOutcome = NotCalled

Init == NewGame /\ NoReactions /\ NoTrips /\ NoFunction

spy == findSpy(players)

(***************************************************************************)
(* run(): setup.                                                           *)
(***************************************************************************)
(* the sessions checked are those of MaxRounds rounds, with and without
   early accusations; a human player sits in the smallest sessions only *)
IncludeHumanChoices == BOOLEAN

(* a GameConfig may come without allowEarlyVote (run() reads it with ??);
   the sessions checked without it are the smallest ones *)
Configs(maxPlayers) ==
    {cfg \in [numPlayers : MinPlayers..maxPlayers, includeHuman : IncludeHumanChoices,
              rounds : {MaxRounds}, allowEarlyVote : BOOLEAN] :
        cfg.includeHuman => cfg.numPlayers = MinPlayers}
    \cup [numPlayers : {MinPlayers}, includeHuman : IncludeHumanChoices, rounds : {MaxRounds}]

allowEarlyVoteAlways(cfg) == TRUE

(* allowEarlyVote ?? true *)
allowEarlyVoteOf(cfg) ==
    IF "allowEarlyVote" \in DOMAIN cfg THEN cfg.allowEarlyVote ELSE TRUE

(* run(): const allowEarlyVote, handed to runQuestionRounds *)
allowEarlyVote == allowEarlyVoteOf(config)

(* the players an Agent is created for: players.filter(p => !p.isHuman) *)
agentNames(ps) ==
    LET isAI(p) == ~p.isHuman
        ais == SelectSeq(ps, isAI)
    IN [i \in 1..Len(ais) |-> ais[i].name]

(* if (config.includeHuman) this.rl = createInterface(...) *)
createInterface(cfg) == IF cfg.includeHuman THEN "open" ELSE "null"

(* run(config) up to the return of setupGame *)
SetupGameFor(maxPlayers) ==
    /\ pc = "start"
    /\ \E cfg \in Configs(maxPlayers) :
         \E setup \in setupGame(cfg.numPlayers, cfg.includeHuman) :
            /\ config' = cfg
            /\ pack' = setup.pack
            /\ players' = setup.players
            /\ rl' = createInterface(cfg)
            /\ agents' = agentNames(setup.players)
            /\ created' = agentNames(setup.players)
    /\ running' = TRUE
    /\ pc' = "rounds"
    /\ UNCHANGED <<roundVars, earlyEnd, accVars, calls, voteVars, guessRaw,
                   spyGuessedRight, result, rlClosed, cleaned, error, reactVars, tripVars, fnVars>>

SetupGame == SetupGameFor(MaxPlayers)

(* run(config) when setupGame rejects: the agents it has created by then
   are not handed over, run()'s own list is still empty *)
SetupFails ==
    /\ pc = "start"
    /\ \E cfg \in Configs(MaxPlayers) :
         \E setup \in setupGame(cfg.numPlayers, cfg.includeHuman) :
            \E k \in 0..Len(agentNames(setup.players)) :
               /\ config' = cfg
               /\ rl' = createInterface(cfg)
               /\ created' = SubSeq(agentNames(setup.players), 1, k)
    /\ running' = TRUE
    /\ agents' = <<>>
    /\ error' = "setupGame"
    /\ pc' = "aborted"
    /\ UNCHANGED <<pack, players, roundVars, earlyEnd, accVars, calls, voteVars,
                   guessRaw, spyGuessedRight, result, rlClosed, cleaned,
                   reactVars, tripVars, fnVars>>

(***************************************************************************)
(* runQuestionRounds.                                                      *)
(***************************************************************************)
unshift(arr, x) == <<x>> \o arr

(* Array.prototype.push *)
push(arr, x) == Append(arr, x)

recordTurnDropped(ts, turn) == ts

(* turns.push(turn) *)
recordTurn(ts, turn) == push(ts, turn)

loopContinuesInclusive(count, numRounds) == count <= numRounds

(* the loop condition roundCount < numRounds *)
loopContinues(count, numRounds) == count < numRounds

(* the initialisation before the loop *)
StartRounds ==
    /\ pc = "rounds"
    /\ turns' = <<>>
    /\ roundCount' = 0
    /\ currentAsker' \in pickRandom(players)
    /\ lastAsker' = NoPlayer
    /\ pc' = "loop"
    /\ UNCHANGED <<config, pack, players, earlyEnd, accVars, calls, voteVars,
                   guessRaw, spyGuessedRight, result,
                   lifeVars, reactVars, tripVars, fnVars>>

(* the action acted on: an illegal choice is downgraded to "question" *)
legalAction(choice, asker, canAccuse) ==
    IF choice = "guess" /\ asker.secret.kind = "SPY" THEN "guess"
    ELSE IF choice = "vote" /\ canAccuse THEN "vote"
    ELSE "question"

(* loop head: a round starts and the asker chooses an action *)
BeginRound ==
    /\ pc = "loop"
    /\ loopContinues(roundCount, config.rounds)
    /\ roundCount' = roundCount + 1
    /\ \E choice \in chooseAction(currentAsker, allowEarlyVote) :
         LET action == legalAction(choice, currentAsker, allowEarlyVote)
         IN /\ pc' = CASE action = "guess" -> "earlyGuess"
                       [] action = "vote" -> "accuse"
                       [] OTHER -> "ask"
    /\ calls' = <<>>
    /\ UNCHANGED <<config, pack, players, turns, currentAsker, lastAsker, earlyEnd,
                   accVars, voteVars, guessRaw, spyGuessedRight, result,
                   lifeVars, reactVars, tripVars, fnVars>>

keepInitiative(asker, answerer) == [lastAsker |-> asker, currentAsker |-> asker]

(* lastAsker = currentAsker; currentAsker = target *)
passInitiative(asker, answerer) == [lastAsker |-> asker, currentAsker |-> answerer]

(* the question step of the loop body: ask, resolve the target, answer,
   record the turn, pass the initiative *)
AskQuestion ==
    /\ pc = "ask"
    /\ \E rawAnswer \in AnswerInputs :
         \E target \in UNION {resolveOtherPlayer(players, targetName, currentAsker.id,
                                                  lastAsker.id) :
                                   targetName \in NameInputs(players)} :
            LET parsed == answerField[rawAnswer]
                publicAnswer == IF parsed # <<>> THEN parsed ELSE rawAnswer
            IN /\ turns' = recordTurn(turns, [askerId |-> currentAsker.name,
                                              targetId |-> target.name,
                                              question |-> QuestionText,
                                              answer |-> publicAnswer])
               /\ lastAsker' = passInitiative(currentAsker, target).lastAsker
               /\ currentAsker' = passInitiative(currentAsker, target).currentAsker
    /\ pc' = "loop"
    /\ UNCHANGED <<config, pack, players, roundCount, earlyEnd, accVars, calls,
                   voteVars, guessRaw, spyGuessedRight, result,
                   lifeVars, reactVars, tripVars, fnVars>>

(* the loop condition fails: the rounds return without an early end *)
RoundsDone ==
    /\ pc = "loop"
    /\ ~loopContinues(roundCount, config.rounds)
    /\ pc' = "voting"
    /\ calls' = <<>>
    /\ UNCHANGED <<config, pack, players, roundVars, earlyEnd, accVars, voteVars,
                   guessRaw, spyGuessedRight, result,
                   lifeVars, reactVars, tripVars, fnVars>>

(***************************************************************************)
(* Spy guess.                                                              *)
(***************************************************************************)
guessIsCorrectNever(raw, pk) == FALSE

(* the comparison made on a guessLocation reply *)
guessIsCorrect(raw, pk) ==
    LET guess == guessField[raw]
    IN normalizedName[guess] = normalizedName[pk.location]

earlyGuessResultGoesOn(correct) ==
    IF correct
    THEN [ended |-> TRUE, winner |-> "spy", reason |-> "Spy correctly guessed the location!"]
    ELSE NotEnded

(* the two returns of handleEarlySpyGuess *)
earlyGuessResult(correct) ==
    IF correct
    THEN [ended |-> TRUE, winner |-> "spy", reason |-> "Spy correctly guessed the location!"]
    ELSE [ended |-> TRUE, winner |-> "civilians", reason |-> "Spy guessed wrong!"]

(* handleEarlySpyGuess *)
HandleEarlySpyGuess ==
    /\ pc = "earlyGuess"
    /\ \E raw \in GuessInputs :
         /\ guessRaw' = raw
         /\ earlyEnd' = earlyGuessResult(guessIsCorrect(raw, pack))
    /\ calls' = Append(calls, Call("guessLocation", currentAsker.name, FALSE, "-"))
    /\ pc' = "returned"
    /\ UNCHANGED <<config, pack, players, roundVars, accVars, voteVars,
                   spyGuessedRight, result,
                   lifeVars, reactVars, tripVars, fnVars>>

(***************************************************************************)
(* handleAccusation.                                                       *)
(***************************************************************************)
invalidAccusationUnknownOnly(found, by) == found = NoPlayer

(* !accused || accused.id === accuser.id *)
invalidAccusation(found, by) == found = NoPlayer \/ found.id = by.id

(* accuse() and the resolution of the accused; an invalid accusation
   returns {ended: false} *)
Accuse ==
    /\ pc = "accuse"
    /\ \E targetName \in NameInputs(players) :
         LET found == findByName(players, normalizedName[targetName])
             invalid == invalidAccusation(found, currentAsker)
         IN /\ accusation' = targetName
            /\ accused' = found
            /\ accOutcome' = IF invalid THEN "void" ELSE "pending"
            /\ pc' = IF invalid THEN "returned" ELSE "defend"
    /\ accuser' = currentAsker
    /\ accusations' = accusations + 1
    /\ voters' = <<>>
    /\ yesVotes' = 0
    /\ noVotes' = 0
    /\ defenseResult' = NoDefense
    /\ calls' = Append(calls, Call("accuse", currentAsker.name, FALSE, "-"))
    /\ UNCHANGED <<config, pack, players, roundVars, earlyEnd, voteVars, guessRaw,
                   spyGuessedRight, result,
                   lifeVars, reactVars, tripVars, fnVars>>

jurorsNone(ps, by, who) == <<>>

jurorsWithAccused(ps, by, who) ==
    LET isJuror(p) == p.id # by.id
    IN SelectSeq(ps, isJuror)

(* players.filter(p => p.id !== accuser.id && p.id !== accused.id) *)
jurors(ps, by, who) ==
    LET isJuror(p) == p.id # by.id /\ p.id # who.id
    IN SelectSeq(ps, isJuror)

(* defendAgainstAccusation(), then the jury is formed and the two fixed
   votes are counted *)
Defend ==
    /\ pc = "defend"
    /\ voters' = jurors(players, accuser, accused)
    /\ yesVotes' = 1
    /\ noVotes' = 1
    /\ \E defense \in DefenseInputs :
         /\ defenseResult' = defense
         /\ calls' = Append(calls, Call("defendAgainstAccusation", accused.name, FALSE,
                                        defense))
    /\ pc' = "jury"
    /\ UNCHANGED <<config, pack, players, roundVars, earlyEnd, accuser, accusation,
                   accused, accOutcome, accusations, voteVars, guessRaw,
                   spyGuessedRight, result,
                   lifeVars, reactVars, tripVars, fnVars>>

(* one iteration of the jury loop *)
JuryVote ==
    /\ pc = "jury"
    /\ voters # <<>>
    /\ \E vote \in {"yes", "no"} :
         /\ yesVotes' = IF vote = "yes" THEN yesVotes + 1 ELSE yesVotes
         /\ noVotes' = IF vote = "yes" THEN noVotes ELSE noVotes + 1
         /\ calls' = Append(calls, JuryCall(Head(voters).name,
                                            defenseHeard(defenseResult, accusation),
                                            vote))
    /\ voters' = Tail(voters)
    /\ UNCHANGED <<pc, config, pack, players, roundVars, earlyEnd, accuser, accusation,
                   accused, accOutcome, accusations, voteVars, guessRaw, defenseResult,
                   spyGuessedRight, result,
                   lifeVars, reactVars, tripVars, fnVars>>

accusedIsSpyAlways(who, theSpy) == TRUE

(* accused.id === spy.id *)
accusedIsSpy(who, theSpy) == who.id = theSpy.id

majorityAtLeastHalf(n) == n \div 2

(* Math.floor(players.length / 2) + 1 *)
majority(n) == (n \div 2) + 1

convictsOnEvenSplit(yes, n) == 2 * yes >= n

(* yesVotes >= majority *)
convicts(yes, n) == yes >= majority(n)

(* the majority test after the jury loop *)
Verdict ==
    /\ pc = "jury"
    /\ voters = <<>>
    /\ IF convicts(yesVotes, Len(players))
       THEN /\ accOutcome' = "convicted"
            /\ IF accusedIsSpy(accused, spy)
               THEN /\ pc' = "caughtGuess"
                    /\ earlyEnd' = earlyEnd
               ELSE /\ pc' = "returned"
                    /\ earlyEnd' = [ended |-> TRUE, winner |-> "spy",
                                    reason |-> "Civilians convicted <accused> but the spy was <spy>!"]
       ELSE /\ accOutcome' = "failed"
            /\ pc' = "returned"
            /\ earlyEnd' = earlyEnd
    /\ UNCHANGED <<config, pack, players, roundVars, accuser, accusation, accused,
                   voters, yesVotes, noVotes, defenseResult, accusations, calls,
                   voteVars, guessRaw, spyGuessedRight, result,
                   lifeVars, reactVars, tripVars, fnVars>>

caughtResultAlwaysCivilians(correct) ==
    [ended |-> TRUE, winner |-> "civilians",
     reason |-> "Spy was caught and couldn't guess the location!"]

(* the result returned after the convicted spy's guess *)
caughtResult(correct) ==
    IF correct
    THEN [ended |-> TRUE, winner |-> "spy",
          reason |-> "Spy was caught but correctly guessed the location!"]
    ELSE [ended |-> TRUE, winner |-> "civilians",
          reason |-> "Spy was caught and couldn't guess the location!"]

(* the convicted spy's last guess *)
CaughtGuess ==
    /\ pc = "caughtGuess"
    /\ \E raw \in GuessInputs :
         /\ guessRaw' = raw
         /\ earlyEnd' = caughtResult(guessIsCorrect(raw, pack))
    /\ calls' = Append(calls, Call("guessLocation", spy.name, TRUE, "-"))
    /\ pc' = "returned"
    /\ UNCHANGED <<config, pack, players, roundVars, accVars, voteVars,
                   spyGuessedRight, result,
                   lifeVars, reactVars, tripVars, fnVars>>

(* the loop takes the EarlyEndResult of handleEarlySpyGuess or
   handleAccusation: an ended result ends the rounds, any other lets the
   loop go on; the locals of the returned call are gone *)
SubProtocolReturns ==
    /\ pc = "returned"
    /\ pc' = IF earlyEnd.ended THEN "earlyEnd" ELSE "loop"
    /\ accuser' = NoPlayer
    /\ accusation' = Null
    /\ accused' = NoPlayer
    /\ voters' = <<>>
    /\ yesVotes' = 0
    /\ noVotes' = 0
    /\ accOutcome' = "none"
    /\ defenseResult' = NoDefense
    /\ guessRaw' = Null
    /\ calls' = <<>>
    /\ UNCHANGED <<config, pack, players, roundVars, earlyEnd, accusations, voteVars,
                   spyGuessedRight, result,
                   lifeVars, reactVars, tripVars, fnVars>>

printEarlyEndResultSpyWins(r) == [winner |-> "spy", reason |-> r.reason]

(* printEarlyEndResult: the result line it prints *)
printEarlyEndResult(r) ==
    IF r.winner = "spy"
    THEN [winner |-> "spy", reason |-> r.reason]
    ELSE [winner |-> "civilians", reason |-> r.reason]

runsVotingPhaseAlways(r) == TRUE

(* run(): if (earlyEnd.ended) { ... } else { the voting phase, the tally,
   the final guess and the final score } *)
runsVotingPhase(r) == ~r.ended

(* run(): the rounds ended early, printEarlyEndResult *)
PrintEarlyEndResult ==
    /\ pc = "earlyEnd"
    /\ earlyEnd.ended
    /\ result' = printEarlyEndResult(earlyEnd)
    /\ pc' = IF runsVotingPhase(earlyEnd) THEN "voting" ELSE "done"
    /\ UNCHANGED <<config, pack, players, roundVars, earlyEnd, accVars, calls,
                   voteVars, guessRaw, spyGuessedRight,
                   lifeVars, reactVars, tripVars, fnVars>>

(***************************************************************************)
(* Final vote.                                                             *)
(***************************************************************************)
(* votes.set(name, (votes.get(name) || 0) + 1) on a Map kept in insertion order *)
mapIncrement(m, name) ==
    IF \E i \in 1..Len(m) : m[i].name = name
    THEN [i \in 1..Len(m) |-> IF m[i].name = name
                              THEN [name |-> name, count |-> m[i].count + 1]
                              ELSE m[i]]
    ELSE Append(m, [name |-> name, count |-> 1])

candidatesAll(ps, p) == ps

(* players.filter(x => x.id !== p.id) *)
candidatesOf(ps, p) ==
    LET other(x) == x.id # p.id
    IN SelectSeq(ps, other)

(* the names the vote of player p can be counted for, given its reply *)
finalVoteOf(ps, p, rawVote) ==
    LET voteName == voteField[rawVote]
        candidates == candidatesOf(ps, p)
        validCandidate == findByName(candidates, normalizedName[voteName])
    IN IF validCandidate # NoPlayer /\ validCandidate.name # <<>>
       THEN {validCandidate.name}
       ELSE {x.name : x \in safePickRandom(candidates, ps[1])}

sortAscending(s) ==
    LET pos(i) == 1 + Cardinality({j \in 1..Len(s) : s[j].count < s[i].count})
                    + Cardinality({j \in 1..(i - 1) : s[j].count = s[i].count})
    IN [p \in 1..Len(s) |-> s[CHOOSE i \in 1..Len(s) : pos(i) = p]]

(* [...votes.entries()].sort((a, b) => b[1] - a[1]): stable, descending; an
   entry comes after those of a higher count and after the earlier entries
   of the same count *)
sortedVotes(s) ==
    LET pos(i) == 1 + Cardinality({j \in 1..Len(s) : s[j].count > s[i].count})
                    + Cardinality({j \in 1..(i - 1) : s[j].count = s[i].count})
    IN [p \in 1..Len(s) |-> s[CHOOSE i \in 1..Len(s) : pos(i) = p]]

tallyVotesFirstEntry(m) == [accusedName |-> m[1].name, isTie |-> FALSE]

(* tallyVotes *)
tallyVotes(m) ==
    LET sorted == sortedVotes(m)
        tie == Len(sorted) > 1 /\ sorted[1].count = sorted[2].count
    IN [accusedName |-> IF tie THEN Null ELSE sorted[1].name, isTie |-> tie]

(* every vote of the log cast by another player than the spy names the spy *)
unanimousAgainst(log, spyName) ==
    \A i \in 1..Len(log) : log[i].voter # spyName => log[i].finalVote = spyName

(* one iteration of the loop of runVotingPhase; after the last one the
   phase returns and run() goes on to tallyVotes and logVerdict *)
CastVote ==
    /\ pc = "voting"
    /\ Len(voteLog) < Len(players)
    /\ LET p == players[Len(voteLog) + 1]
           isLast == Len(voteLog) + 1 = Len(players)
       IN \E finalVote \in UNION {finalVoteOf(players, p, rawVote) :
                                     rawVote \in VoteInputs(players)} :
               LET counted == mapIncrement(votes, finalVote)
               IN /\ votes' = counted
                  /\ voteLog' = Append(voteLog, [voter |-> p.name, finalVote |-> finalVote])
                  /\ calls' = Append(calls, Call("vote", p.name, FALSE, "-"))
                  /\ accusedName' = IF isLast THEN tallyVotes(votes').accusedName
                                    ELSE accusedName
                  /\ isTie' = IF isLast THEN tallyVotes(votes').isTie ELSE isTie
                  /\ unanimous' = (isLast /\ unanimousAgainst(voteLog', spy.name))
                  /\ pc' = IF isLast THEN "spyGuess" ELSE pc
    /\ UNCHANGED <<config, pack, players, roundVars, earlyEnd, accVars, guessRaw,
                   spyGuessedRight, result,
                   lifeVars, reactVars, tripVars, fnVars>>

returnsWithoutGuessNever(accName, tie, spyName) == FALSE

returnsWithoutGuessOnTie(accName, tie, spyName) == accName # spyName

(* if (accusedName !== spy.name && !isTie) return false *)
returnsWithoutGuess(accName, tie, spyName) == accName # spyName /\ ~tie

(* runSpyGuessIfEligible; the tally Map and the votes behind it are not
   read after tallyVotes *)
RunSpyGuessIfEligible ==
    /\ pc = "spyGuess"
    /\ IF returnsWithoutGuess(accusedName, isTie, spy.name)
       THEN /\ spyGuessedRight' = FALSE
            /\ guessRaw' = guessRaw
            /\ calls' = <<>>
       ELSE \E raw \in GuessInputs :
               /\ guessRaw' = raw
               /\ spyGuessedRight' = guessIsCorrect(raw, pack)
               /\ calls' = <<Call("guessLocation", spy.name, TRUE, "-")>>
    /\ votes' = <<>>
    /\ voteLog' = <<>>
    /\ pc' = "score"
    /\ UNCHANGED <<config, pack, players, roundVars, earlyEnd, accVars, accusedName,
                   isTie, unanimous, result,
                   lifeVars, reactVars, tripVars, fnVars>>

printFinalScoreCaughtFirst(accName, spyName, guessedRight) ==
    IF accName = spyName
    THEN [winner |-> "civilians", reason |-> "Spy was caught"]
    ELSE IF guessedRight
    THEN [winner |-> "spy", reason |-> "Correctly identified the location"]
    ELSE [winner |-> "spy", reason |-> "Total deception"]

(* printFinalScore: the result line it prints *)
printFinalScore(accName, spyName, guessedRight) ==
    IF guessedRight
    THEN [winner |-> "spy", reason |-> "Correctly identified the location"]
    ELSE IF accName = spyName
    THEN [winner |-> "civilians", reason |-> "Spy was caught"]
    ELSE [winner |-> "spy", reason |-> "Total deception"]

(* run(): printFinalScore *)
PrintFinalScore ==
    /\ pc = "score"
    /\ result' = printFinalScore(accusedName, spy.name, spyGuessedRight)
    /\ guessRaw' = Null
    /\ calls' = <<>>
    /\ pc' = "done"
    /\ UNCHANGED <<config, pack, players, roundVars, earlyEnd, accVars, voteVars,
                   spyGuessedRight,
                   lifeVars, reactVars, tripVars, fnVars>>

(***************************************************************************)
(* Errors and run()'s finally block.                                       *)
(***************************************************************************)
(* the controller calls the session is awaiting at its present position;
   collectReactions is awaited in the question step when the question has
   bystanders *)
pendingCalls ==
    CASE pc = "loop" /\ loopContinues(roundCount, config.rounds) -> {"chooseAction"}
      [] pc = "ask" -> {"ask", "answer"}
                         \cup (IF Len(players) > 2 THEN {"react"} ELSE {})
      [] pc = "earlyGuess" -> {"guessLocation"}
      [] pc = "accuse" -> {"accuse"}
      [] pc = "defend" -> {"defendAgainstAccusation"}
      [] pc = "jury" /\ voters # <<>> -> {"voteOnAccusation"}
      [] pc = "caughtGuess" -> {"guessLocation"}
      [] pc = "voting" /\ Len(voteLog) < Len(players) -> {"vote"}
      [] pc = "spyGuess" /\ ~returnsWithoutGuess(accusedName, isTie, spy.name)
            -> {"guessLocation"}
      [] OTHER -> {}

abortedResultFallback(op) == [winner |-> "spy", reason |-> "Total deception"]

(* what has been announced when a rejected call has unwound run() *)
abortedResult(op) == NoResult

(* an awaited controller call rejects: no phase and no controller catches
   it, the rejection unwinds the phase and run()'s try block; the locals of
   the unwound frames are gone *)
CallFails ==
    /\ \E op \in pendingCalls :
         /\ error' = op
         /\ result' = abortedResult(op)
    /\ pc' = "aborted"
    /\ pack' = NoPack
    /\ players' = <<>>
    /\ turns' = <<>>
    /\ roundCount' = 0
    /\ currentAsker' = NoPlayer
    /\ lastAsker' = NoPlayer
    /\ earlyEnd' = NotEnded
    /\ accuser' = NoPlayer
    /\ accusation' = Null
    /\ accused' = NoPlayer
    /\ voters' = <<>>
    /\ yesVotes' = 0
    /\ noVotes' = 0
    /\ accOutcome' = "none"
    /\ defenseResult' = NoDefense
    /\ accusations' = 0
    /\ calls' = <<>>
    /\ votes' = <<>>
    /\ voteLog' = <<>>
    /\ accusedName' = Null
    /\ isTie' = FALSE
    /\ unanimous' = FALSE
    /\ guessRaw' = Null
    /\ spyGuessedRight' = FALSE
    /\ UNCHANGED <<config, running, rl, rlClosed, agents, created, cleaned, reactVars, tripVars, fnVars>>

(* Promise.all(agents.map(a => a.cleanup())) *)
cleanupAll(as) == {as[i] : i \in 1..Len(as)}

(* run()'s finally block, after a normal end and after an error alike *)
Finally ==
    /\ pc \in {"done", "aborted"}
    /\ cleaned' = cleanupAll(agents)
    /\ rlClosed' = (rl = "open")
    /\ rl' = "null"
    /\ running' = FALSE
    /\ pc' = "settled"
    /\ UNCHANGED <<config, pack, players, roundVars, earlyEnd, accVars, calls,
                   voteVars, guessRaw, spyGuessedRight, result, agents, created,
                   error, reactVars, tripVars, fnVars>>

(* run()'s finally block when the cleanup() of an agent rejects: every
   cleanup() has been called by the map, the await of Promise.all rejects
   and the three statements after it are not executed *)
CleanupFails ==
    /\ pc \in {"done", "aborted"}
    /\ agents # <<>>
    /\ cleaned' = cleanupAll(agents)
    /\ pc' = "settled"
    /\ UNCHANGED <<config, pack, players, roundVars, earlyEnd, accVars, calls,
                   voteVars, guessRaw, spyGuessedRight, result, running, rl, rlClosed,
                   agents, created, error, reactVars, tripVars, fnVars>>

(***************************************************************************)
(* Specifications.                                                         *)
(***************************************************************************)
Next ==
    \/ SetupGame
    \/ StartRounds
    \/ BeginRound
    \/ AskQuestion
    \/ RoundsDone
    \/ HandleEarlySpyGuess
    \/ Accuse
    \/ Defend
    \/ JuryVote
    \/ Verdict
    \/ CaughtGuess
    \/ SubProtocolReturns
    \/ PrintEarlyEndResult
    \/ CastVote
    \/ RunSpyGuessIfEligible
    \/ PrintFinalScore
    \/ SetupFails
    \/ CallFails
    \/ Finally
    \/ CleanupFails

Spec == Init /\ [][Next]_vars

(* the sessions in which setupGame resolves and every controller call
   returns: run() is a single thread of control that goes on whenever the
   call it awaits has returned *)
ProgressNext ==
    \/ SetupGame
    \/ StartRounds
    \/ BeginRound
    \/ AskQuestion
    \/ RoundsDone
    \/ HandleEarlySpyGuess
    \/ Accuse
    \/ Defend
    \/ JuryVote
    \/ Verdict
    \/ CaughtGuess
    \/ SubProtocolReturns
    \/ PrintEarlyEndResult
    \/ CastVote
    \/ RunSpyGuessIfEligible
    \/ PrintFinalScore
    \/ Finally

ProgressSpec == Init /\ [][ProgressNext]_vars /\ WF_vars(ProgressNext)

(* if (this.running) return; *)
returnsAtGuardNever(isRunning) == FALSE

returnsAtGuard(isRunning) == isRunning

(* a further call of run() on the instance *)
SecondRun == [kind |-> "run"]

(* how the further call went on from the guard *)
ReturnedAtGuard == [kind |-> "returned at the guard"]

(* run() is called on an instance on which run() has been called before: it
   returns at the guard when the instance is running; otherwise it is the
   call of a session on an instance that is as new, with fresh locals, and
   SetupGame and SetupFails are how that call goes on *)
RunAgain ==
    /\ pc # "start"
    /\ IF returnsAtGuard(running)
       THEN /\ fnArgs' = SecondRun
            /\ fnOutcome' = ReturnedAtGuard
            /\ UNCHANGED <<pc, config, pack, players, roundVars, earlyEnd, accVars, calls,
                           voteVars, guessRaw, spyGuessedRight, result, lifeVars,
                           reactVars, tripVars>>
       ELSE /\ fnArgs' = NotCalled
            /\ fnOutcome' = NotCalled
            /\ pc' = "start"
            /\ config' = NoConfig
            /\ pack' = NoPack
            /\ players' = <<>>
            /\ turns' = <<>>
            /\ roundCount' = 0
            /\ currentAsker' = NoPlayer
            /\ lastAsker' = NoPlayer
            /\ earlyEnd' = NotEnded
            /\ accuser' = NoPlayer
            /\ accusation' = Null
            /\ accused' = NoPlayer
            /\ voters' = <<>>
            /\ yesVotes' = 0
            /\ noVotes' = 0
            /\ accOutcome' = "none"
            /\ defenseResult' = NoDefense
            /\ accusations' = 0
            /\ calls' = <<>>
            /\ votes' = <<>>
            /\ voteLog' = <<>>
            /\ accusedName' = Null
            /\ isTie' = FALSE
            /\ unanimous' = FALSE
            /\ guessRaw' = Null
            /\ spyGuessedRight' = FALSE
            /\ result' = NoResult
            /\ running' = FALSE
            /\ rl' = "null"
            /\ rlClosed' = FALSE
            /\ agents' = <<>>
            /\ created' = <<>>
            /\ cleaned' = {}
            /\ error' = "none"
            /\ UNCHANGED <<reactVars, tripVars>>

(* the session with a second call of run() made at any point of it *)
ReentrantNext ==
    \/ SetupGame
    \/ StartRounds
    \/ BeginRound
    \/ AskQuestion
    \/ RoundsDone
    \/ HandleEarlySpyGuess
    \/ Accuse
    \/ Defend
    \/ JuryVote
    \/ Verdict
    \/ CaughtGuess
    \/ SubProtocolReturns
    \/ PrintEarlyEndResult
    \/ CastVote
    \/ RunSpyGuessIfEligible
    \/ PrintFinalScore
    \/ SetupFails
    \/ CallFails
    \/ Finally
    \/ CleanupFails
    \/ RunAgain

ReentrantSpec == Init /\ [][ReentrantNext]_vars

(* setup alone, for larger rosters *)
SetupGameWide == SetupGameFor(MaxSetupPlayers)

SetupNext == SetupGameWide

SetupSpec == Init /\ [][SetupNext]_vars

(***************************************************************************)
(* collectReactions: one call, from its entry to its return.               *)
(***************************************************************************)
(* a react() promise that has not settled *)
Pending == [name |-> Null, emoji |-> "?", reaction |-> "?", suspicion |-> "?"]

(* what react() resolves with: the human controller's empty reaction, a
   reaction with and without a suspicion, and an emoji with no text *)
ReactionInputs ==
    {[emoji |-> "", reaction |-> "", suspicion |-> ""],
     [emoji |-> "e", reaction |-> "hm", suspicion |-> ""],
     [emoji |-> "e", reaction |-> "hm", suspicion |-> "sus"],
     [emoji |-> "e", reaction |-> "", suspicion |-> ""]}

(* the rosters the reactors are taken from *)
ReactorRoster == dealPlayers(MaxReactors, FALSE, 0, Airplane, <<>>)

(* the reactors arguments: every roster filtered by a predicate on players *)
ReactorInputs ==
    {LET keep(p) == p.id \in ids IN SelectSeq(ReactorRoster, keep) :
        ids \in SUBSET {ReactorRoster[i].id : i \in 1..Len(ReactorRoster)}}

promiseAllByCompletion(results, order) == [k \in 1..Len(order) |-> results[order[k]]]

(* await Promise.all(promises): the results by position, once all settled *)
promiseAll(results, order) == results

(* reactions.filter(r => r.emoji && r.reaction) *)
validReactions(rs) ==
    LET isValid(r) == r.emoji # "" /\ r.reaction # ""
    IN SelectSeq(rs, isValid)

(* the lines logged by the for loop over validReactions *)
RECURSIVE reactionLines(_)
reactionLines(rs) ==
    IF rs = <<>> THEN <<>>
    ELSE LET r == Head(rs)
             line == [name |-> r.name, emoji |-> r.emoji, text |-> r.reaction]
             hint == [name |-> r.name, emoji |-> "", text |-> r.suspicion]
         IN (IF r.suspicion # "" THEN <<line, hint>> ELSE <<line>>)
                \o reactionLines(Tail(rs))

(* a call of collectReactions with some reactors *)
ReactInit ==
    /\ NewGame
    /\ reactPc = "called"
    /\ NoTrips
    /\ NoFunction
    /\ reactors \in ReactorInputs
    /\ reactions = <<>>
    /\ completionOrder = <<>>
    /\ reactLog = <<>>

(* the early return on no reactors; otherwise reactors.map(...) starts every
   react() call before the await of Promise.all *)
CollectReactions ==
    /\ reactPc = "called"
    /\ IF Len(reactors) = 0
       THEN /\ reactPc' = "returned"
            /\ reactions' = reactions
       ELSE /\ reactPc' = "awaiting"
            /\ reactions' = [i \in 1..Len(reactors) |-> Pending]
    /\ UNCHANGED <<reactors, completionOrder, reactLog>>
    /\ UNCHANGED <<pc, config, pack, players, roundVars, earlyEnd, accVars, calls,
                   voteVars, guessRaw, spyGuessedRight, result, lifeVars, tripVars, fnVars>>

(* one react() call resolves, in any order; { name: p.name, ...result } *)
ReactResolves ==
    /\ reactPc \in {"awaiting", "rejected"}
    /\ \E i \in 1..Len(reactors) :
         /\ reactions[i] = Pending
         /\ \E r \in ReactionInputs :
              reactions' = [reactions EXCEPT ![i] =
                               [name |-> reactors[i].name, emoji |-> r.emoji,
                                reaction |-> r.reaction, suspicion |-> r.suspicion]]
         /\ completionOrder' = Append(completionOrder, i)
    /\ UNCHANGED <<reactPc, reactors, reactLog>>
    /\ UNCHANGED <<pc, config, pack, players, roundVars, earlyEnd, accVars, calls,
                   voteVars, guessRaw, spyGuessedRight, result, lifeVars, tripVars, fnVars>>

(* one react() call rejects: Promise.all rejects at once and
   collectReactions throws without logging *)
ReactRejects ==
    /\ reactPc = "awaiting"
    /\ \E i \in 1..Len(reactors) : reactions[i] = Pending
    /\ reactPc' = "rejected"
    /\ UNCHANGED <<reactors, reactions, completionOrder, reactLog>>
    /\ UNCHANGED <<pc, config, pack, players, roundVars, earlyEnd, accVars, calls,
                   voteVars, guessRaw, spyGuessedRight, result, lifeVars, tripVars, fnVars>>

(* Promise.all resolves when every call has resolved; the filter and the
   logging loop run without an await *)
LogReactions ==
    /\ reactPc = "awaiting"
    /\ \A i \in 1..Len(reactors) : reactions[i] # Pending
    /\ reactLog' = reactLog
                     \o reactionLines(validReactions(promiseAll(reactions, completionOrder)))
    /\ reactPc' = "returned"
    /\ UNCHANGED <<reactors, reactions, completionOrder>>
    /\ UNCHANGED <<pc, config, pack, players, roundVars, earlyEnd, accVars, calls,
                   voteVars, guessRaw, spyGuessedRight, result, lifeVars, tripVars, fnVars>>

ReactNext ==
    \/ CollectReactions
    \/ ReactResolves
    \/ ReactRejects
    \/ LogReactions

ReactSpec == ReactInit /\ [][ReactNext]_vars

(***************************************************************************)
(* The three loops of controller calls, followed call by call: the issue   *)
(* of a call and its return are separate steps.                            *)
(***************************************************************************)
(* a controller call in flight: the n-th call issued by the loop *)
Trip(op, who, n) == [op |-> op, who |-> who, n |-> n]

awaitsNothing(loopPc, waitPc) == loopPc

(* await: the function is suspended until the call it has just issued
   settles *)
awaits(loopPc, waitPc) == waitPc

(* the function entered and its arguments: runQuestionRounds and
   runVotingPhase on the players of a new game, the jury loop of
   handleAccusation on a valid accusation *)
TripInit ==
    /\ \E cfg \in Configs(MaxPlayers) :
         \E setup \in setupGame(cfg.numPlayers, cfg.includeHuman) :
            /\ config = cfg
            /\ pack = setup.pack
            /\ players = setup.players
            /\ \/ /\ pc = "questions"
                  /\ currentAsker \in pickRandom(setup.players)
                  /\ accuser = NoPlayer
                  /\ accused = NoPlayer
                  /\ voters = <<>>
                  /\ yesVotes = 0
                  /\ noVotes = 0
                  /\ accOutcome = "none"
                  /\ defenseResult = NoDefense
               \/ /\ pc = "jury"
                  /\ currentAsker \in pickRandom(setup.players)
                  /\ accuser = currentAsker
                  /\ accused \in pickRandom(candidatesOf(setup.players, currentAsker))
                  /\ voters = jurors(setup.players, accuser, accused)
                  /\ yesVotes = 1
                  /\ noVotes = 1
                  /\ accOutcome = "pending"
                  /\ defenseResult \in DefenseInputs
               \/ /\ pc = "voting"
                  /\ currentAsker \in pickRandom(setup.players)
                  /\ accuser = NoPlayer
                  /\ accused = NoPlayer
                  /\ voters = <<>>
                  /\ yesVotes = 0
                  /\ noVotes = 0
                  /\ accOutcome = "none"
                  /\ defenseResult = NoDefense
    /\ turns = <<>>
    /\ roundCount = 0
    /\ lastAsker = NoPlayer
    /\ earlyEnd = NotEnded
    /\ accusation = Null
    /\ accusations = 0
    /\ calls = <<>>
    /\ votes = <<>>
    /\ voteLog = <<>>
    /\ accusedName = Null
    /\ isTie = FALSE
    /\ unanimous = FALSE
    /\ guessRaw = Null
    /\ spyGuessedRight = FALSE
    /\ result = NoResult
    /\ running = TRUE
    /\ rl = "null"
    /\ rlClosed = FALSE
    /\ agents = <<>>
    /\ created = <<>>
    /\ cleaned = {}
    /\ error = "none"
    /\ NoReactions
    /\ NoTrips
    /\ NoFunction

(* what the three loops leave alone *)
tripFrame ==
    <<config, pack, players, earlyEnd, accuser, accusation, accused, defenseResult, accOutcome,
      accusations, calls, accusedName, isTie, unanimous, guessRaw, spyGuessedRight,
      result, lifeVars, reactVars, fnVars>>

(* while (roundCount < numRounds) { roundCount++; await askerCtl.ask(...) *)
IssueAsk ==
    /\ pc = "questions"
    /\ loopContinues(roundCount, config.rounds)
    /\ roundCount' = roundCount + 1
    /\ cursor' = cursor + 1
    /\ inFlight' = inFlight \cup {Trip("ask", currentAsker.name, cursor')}
    /\ pc' = awaits("questions", "asking")
    /\ UNCHANGED <<turns, currentAsker, lastAsker, voters, yesVotes, noVotes, votes,
                   voteLog, resolvedTarget, tripFrame>>

(* ask() returns: the target is resolved and answer() is called *)
AskReturns ==
    /\ pc = "asking"
    /\ \E call \in inFlight :
         /\ call.op = "ask"
         /\ \E found \in UNION {resolveOtherPlayer(players, targetName, currentAsker.id,
                                                   lastAsker.id) :
                                    targetName \in NameInputs(players)} :
              /\ resolvedTarget' = found
              /\ cursor' = cursor + 1
              /\ inFlight' = (inFlight \ {call}) \cup {Trip("answer", found.name, cursor')}
    /\ pc' = awaits("asking", "answering")
    /\ UNCHANGED <<turns, roundCount, currentAsker, lastAsker, voters, yesVotes, noVotes,
                   votes, voteLog, tripFrame>>

(* answer() returns: the Turn is pushed and the initiative passes *)
AnswerReturns ==
    /\ pc = "answering"
    /\ \E call \in inFlight :
         /\ call.op = "answer"
         /\ inFlight' = inFlight \ {call}
         /\ \E rawAnswer \in AnswerInputs :
              LET parsed == answerField[rawAnswer]
                  publicAnswer == IF parsed # <<>> THEN parsed ELSE rawAnswer
              IN turns' = recordTurn(turns, [askerId |-> currentAsker.name,
                                             targetId |-> resolvedTarget.name,
                                             question |-> QuestionText,
                                             answer |-> publicAnswer])
    /\ lastAsker' = passInitiative(currentAsker, resolvedTarget).lastAsker
    /\ currentAsker' = passInitiative(currentAsker, resolvedTarget).currentAsker
    /\ resolvedTarget' = NoPlayer
    /\ pc' = "questions"
    /\ UNCHANGED <<roundCount, voters, yesVotes, noVotes, votes, voteLog, cursor,
                   tripFrame>>

(* for (const voter of voters) { await voterCtl.voteOnAccusation(...) *)
IssueJuryVote ==
    /\ pc = "jury"
    /\ cursor < Len(voters)
    /\ cursor' = cursor + 1
    /\ inFlight' = inFlight \cup {Trip("voteOnAccusation", voters[cursor'].name, cursor')}
    /\ pc' = awaits("jury", "juryVoting")
    /\ UNCHANGED <<roundVars, voters, yesVotes, noVotes, votes, voteLog, resolvedTarget,
                   tripFrame>>

(* voteOnAccusation() returns: the reply is counted *)
JuryVoteReturns ==
    /\ pc = "juryVoting"
    /\ \E call \in inFlight :
         /\ call.op = "voteOnAccusation"
         /\ inFlight' = inFlight \ {call}
    /\ \E vote \in {"yes", "no"} :
         /\ yesVotes' = IF vote = "yes" THEN yesVotes + 1 ELSE yesVotes
         /\ noVotes' = IF vote = "yes" THEN noVotes ELSE noVotes + 1
    /\ pc' = "jury"
    /\ UNCHANGED <<roundVars, voters, votes, voteLog, cursor, resolvedTarget, tripFrame>>

(* for (const p of players) { await controllers.get(p.id).vote(...) *)
IssueVote ==
    /\ pc = "voting"
    /\ cursor < Len(players)
    /\ cursor' = cursor + 1
    /\ inFlight' = inFlight \cup {Trip("vote", players[cursor'].name, cursor')}
    /\ pc' = awaits("voting", "castingVote")
    /\ UNCHANGED <<roundVars, voters, yesVotes, noVotes, votes, voteLog, resolvedTarget,
                   tripFrame>>

(* vote() returns: the vote is resolved and counted in the Map *)
VoteReturns ==
    /\ pc = "castingVote"
    /\ \E call \in inFlight :
         /\ call.op = "vote"
         /\ inFlight' = inFlight \ {call}
         /\ LET p == players[call.n]
            IN \E finalVote \in UNION {finalVoteOf(players, p, rawVote) :
                                          rawVote \in VoteInputs(players)} :
                  /\ votes' = mapIncrement(votes, finalVote)
                  /\ voteLog' = Append(voteLog, [voter |-> p.name, finalVote |-> finalVote])
    /\ pc' = "voting"
    /\ UNCHANGED <<roundVars, voters, yesVotes, noVotes, cursor, resolvedTarget, tripFrame>>

(* the loop is over and the function returns *)
LoopReturns ==
    /\ \/ pc = "questions" /\ ~loopContinues(roundCount, config.rounds)
       \/ pc = "jury" /\ cursor >= Len(voters)
       \/ pc = "voting" /\ cursor >= Len(players)
    /\ pc' = "returned"
    /\ UNCHANGED <<roundVars, voters, yesVotes, noVotes, votes, voteLog, tripVars,
                   tripFrame>>

TripNext ==
    \/ IssueAsk
    \/ AskReturns
    \/ AnswerReturns
    \/ IssueJuryVote
    \/ JuryVoteReturns
    \/ IssueVote
    \/ VoteReturns
    \/ LoopReturns

TripSpec == TripInit /\ [][TripNext]_vars

(***************************************************************************)
(* handleStart: the rounds of the configuration handed to game.run().      *)
(***************************************************************************)
(* a Number: NaN, or an integer *)
NaN == [nan |-> TRUE, n |-> 0]

Num(n) == [nan |-> FALSE, n |-> n]

(* the value of a digit in a radix, or -1 *)
digitValue(c, radix) ==
    LET hex == <<"0", "1", "2", "3", "4", "5", "6", "7", "8", "9",
                 "a", "b", "c", "d", "e", "f">>
        hits == {k \in 1..radix : hex[k] = toLowerChar(c)}
    IN IF hits = {} THEN -1 ELSE (CHOOSE k \in hits : TRUE) - 1

(* the value of a sequence of digits *)
RECURSIVE digitsValue(_, _)
digitsValue(s, radix) ==
    IF s = <<>> THEN 0
    ELSE digitsValue(SubSeq(s, 1, Len(s) - 1), radix) * radix + digitValue(s[Len(s)], radix)

(* parseInt(string) with no radix: leading white space is skipped, a sign
   is read, 0x or 0X selects radix 16, the longest run of digits is the
   value and what follows is ignored; no digit gives NaN. -0 is 0 here:
   both are falsy *)
parseInt(string) ==
    LET lead == {i \in 1..Len(string) : ~isSpace(string[i])}
        s == IF lead = {} THEN <<>>
             ELSE SubSeq(string, CHOOSE i \in lead : \A j \in lead : i <= j, Len(string))
        signed == s # <<>> /\ s[1] \in {"+", "-"}
        sign == IF s # <<>> /\ s[1] = "-" THEN -1 ELSE 1
        body == IF signed THEN Tail(s) ELSE s
        isHex == Len(body) >= 2 /\ body[1] = "0" /\ body[2] \in {"x", "X"}
        radix == IF isHex THEN 16 ELSE 10
        rest == IF isHex THEN SubSeq(body, 3, Len(body)) ELSE body
        bad == {i \in 1..Len(rest) : digitValue(rest[i], radix) < 0}
        end == IF bad = {} THEN Len(rest)
               ELSE (CHOOSE i \in bad : \A j \in bad : i <= j) - 1
    IN IF end = 0 THEN NaN ELSE Num(sign * digitsValue(SubSeq(rest, 1, end), radix))

(* a || b on strings: null and the empty string are falsy *)
stringOr(a, b) == IF a = Null \/ a = <<>> THEN b ELSE a

(* a || b on Numbers: NaN and 0 are falsy *)
numberOr(a, b) == IF a.nan \/ a.n = 0 THEN b ELSE a

(* Math.max: NaN if an argument is NaN *)
mathMax(a, b) == IF a.nan \/ b.nan THEN NaN ELSE IF a.n >= b.n THEN a ELSE b

mathMinSecond(a, b) == b

(* Math.min: NaN if an argument is NaN *)
mathMin(a, b) == IF a.nan \/ b.nan THEN NaN ELSE IF a.n <= b.n THEN a ELSE b

(* Math.min(30, Math.max(1, parseInt(params.get("rounds") || "9") || 9)) *)
roundsOf(param) ==
    mathMin(Num(30), mathMax(Num(1), numberOr(parseInt(stringOr(param, <<"9">>)), Num(9))))

(* the characters of the rounds parameters checked *)
ParamChars == {"0", "3", "9", "-", "x", "f", " ", "."}

(* params.get("rounds"): null when the parameter is missing, else its text *)
RoundsParams ==
    {Null} \cup UNION {[1..n -> ParamChars] : n \in 0..MaxParamLen}

(* a POST /api/start with some rounds parameter *)
StartInit ==
    /\ NewGame
    /\ NoReactions
    /\ NoTrips
    /\ fnArgs \in [kind : {"handleStart"}, rounds : RoundsParams]
    /\ fnOutcome = NotCalled

(* handleStart up to game.run(config): the configuration it builds *)
HandleStart ==
    /\ fnArgs.kind = "handleStart"
    /\ fnOutcome = NotCalled
    /\ fnOutcome' = [kind |-> "run", rounds |-> roundsOf(fnArgs.rounds)]
    /\ UNCHANGED <<pc, config, pack, players, roundVars, earlyEnd, accVars, calls,
                   voteVars, guessRaw, spyGuessedRight, result, lifeVars, reactVars,
                   tripVars, fnArgs>>

StartNext == HandleStart

StartSpec == StartInit /\ [][StartNext]_vars

(***************************************************************************)
(* handleStart from game.run(config) to its return: the stream of          *)
(* broadcasts and the callbacks of the game.                               *)
(***************************************************************************)
(* game.onOutput, game.onPrompt, game.onGameInfo, game.onAgentCreated *)
Callbacks == {"onOutput", "onPrompt", "onGameInfo", "onAgentCreated"}

(* what the running game calls a callback for, and the callback it calls *)
callbackOf ==
    [log |-> "onOutput", prompt |-> "onPrompt", gameinfo |-> "onGameInfo",
     agentcreated |-> "onAgentCreated"]

GameEvents == {"log", "prompt"}

(* the events of a run(), in the order it emits them *)
EventScripts == UNION {[1..n -> GameEvents] : n \in 0..MaxEvents}

(* what run() rejects with: an Error, or a value that is not an Error *)
RejectionValues ==
    {[isError |-> TRUE, message |-> "quota exceeded", text |-> "Error: quota exceeded"],
     [isError |-> FALSE, message |-> "-", text |-> "aborted"]}

(* how run() settles *)
RunOutcomes ==
    {[kind |-> "resolved"]} \cup {[kind |-> "rejected", err |-> e] : e \in RejectionValues}

(* err instanceof Error ? err.message : String(err) *)
errorText(err) == IF err.isError THEN err.message ELSE err.text

(* an SSE log event carrying a line of the game *)
GameLine(n) == [event |-> "log", line |-> <<"game line", n>>]

PromptEvent(n) == [event |-> "prompt", line |-> <<"prompt", n>>]

GameOverLine == [event |-> "log", line |-> <<"[Game over.]">>]

ErrorLine(text) == [event |-> "log", line |-> <<"[Error: ", text, "]">>]

terminalLinesGameOverAlways(outcome) ==
    IF outcome.kind = "resolved"
    THEN <<GameOverLine>>
    ELSE <<GameOverLine, ErrorLine(errorText(outcome.err))>>

(* try { await game.run(config); broadcast("[Game over.]") }
   catch (err) { broadcast("[Error: ...]") }: broadcast does not throw *)
terminalLines(outcome) ==
    IF outcome.kind = "resolved"
    THEN <<GameOverLine>>
    ELSE <<ErrorLine(errorText(outcome.err))>>

(* a POST /api/start has attached the four callbacks to a new SpyfallGame
   and has called run(), which will emit some events and settle somehow *)
ServeInit ==
    /\ NewGame
    /\ NoReactions
    /\ NoTrips
    /\ fnArgs \in [kind : {"serve"}, emits : EventScripts, settles : RunOutcomes]
    /\ fnOutcome = [at |-> "awaits run", emitted |-> 0, stream |-> <<>>,
                    attached |-> Callbacks]

(* the running game emits its next event through the callback it has *)
GameEmits ==
    /\ fnArgs.kind = "serve"
    /\ fnOutcome.at = "awaits run"
    /\ fnOutcome.emitted < Len(fnArgs.emits)
    /\ LET n == fnOutcome.emitted + 1
           e == fnArgs.emits[n]
           sent == IF callbackOf[e] \notin fnOutcome.attached THEN <<>>
                   ELSE IF e = "log" THEN <<GameLine(n)>>
                   ELSE <<PromptEvent(n)>>
       IN fnOutcome' = [fnOutcome EXCEPT !.emitted = n, !.stream = @ \o sent]
    /\ UNCHANGED <<pc, config, pack, players, roundVars, earlyEnd, accVars, calls,
                   voteVars, guessRaw, spyGuessedRight, result, lifeVars, reactVars,
                   tripVars, fnArgs>>

(* run() settles after its last event; handleStart goes on from the await
   to its return: the terminal line, then the finally block *)
RunSettles ==
    /\ fnArgs.kind = "serve"
    /\ fnOutcome.at = "awaits run"
    /\ fnOutcome.emitted = Len(fnArgs.emits)
    /\ fnOutcome' = [fnOutcome EXCEPT !.at = "returned",
                                      !.stream = @ \o terminalLines(fnArgs.settles),
                                      !.attached = {}]
    /\ UNCHANGED <<pc, config, pack, players, roundVars, earlyEnd, accVars, calls,
                   voteVars, guessRaw, spyGuessedRight, result, lifeVars, reactVars,
                   tripVars, fnArgs>>

ServeNext ==
    \/ GameEmits
    \/ RunSettles

ServeSpec == ServeInit /\ [][ServeNext]_vars

(***************************************************************************)
(* OpenAIProvider: init, chatStateful and cleanup of one provider, each    *)
(* followed from await to await.                                           *)
(***************************************************************************)
(* an id that is undefined *)
Undefined == 0

(* throw new Error("Provider not initialized. Call init() first.") *)
NotInitialized == "Provider not initialized. Call init() first."

(* what chatStateful does past its guard: a reply, a run that did not
   complete, a rejected request *)
ChatOutcomes == {"reply", "Run failed with status", "request rejected"}

(* if (!this.threadId || !this.assistantId) *)
notInitialized(p) == p.threadId = Undefined \/ p.assistantId = Undefined

(* no call of the method has been made *)
NoCall == [called |-> FALSE]

idAfterCleanupKeptOnFailure(id, deleteFailed) == IF deleteFailed THEN id ELSE Undefined

(* this.threadId = undefined; this.assistantId = undefined; after the
   try/catch, whether a delete failed or not *)
idAfterCleanup(id, deleteFailed) == Undefined

(* cleanup() returns: the catch has swallowed a failed delete, both ids
   are assigned, the promise resolves *)
cleanupReturns(p, deleteFailed) ==
    LET cleared == [p EXCEPT !.threadId = idAfterCleanup(@, deleteFailed),
                             !.assistantId = idAfterCleanup(@, deleteFailed)]
    IN [cleared EXCEPT !.cleanupAt = "idle",
                       !.initDone = FALSE,
                       !.lastCleanup = [called |-> TRUE, threw |-> FALSE,
                                        deleteFailed |-> deleteFailed,
                                        wasInitialized |-> p.cleaning,
                                        threadId |-> cleared.threadId,
                                        assistantId |-> cleared.assistantId]]

(* a provider that has been constructed *)
ProviderInit ==
    /\ NewGame
    /\ NoReactions
    /\ NoTrips
    /\ fnArgs = [kind |-> "provider", type |-> "openai"]
    /\ fnOutcome = [assistantId |-> Undefined, threadId |-> Undefined,
                    initAt |-> "idle", cleanupAt |-> "idle", cleaning |-> FALSE,
                    ids |-> 0, initDone |-> FALSE,
                    lastChat |-> NoCall, lastCleanup |-> NoCall]

ProviderFrame ==
    UNCHANGED <<pc, config, pack, players, roundVars, earlyEnd, accVars, calls,
                voteVars, guessRaw, spyGuessedRight, result, lifeVars, reactVars,
                tripVars, fnArgs>>

(* init(): await assistants.create, which rejects or gives an id *)
InitCreatesAssistant ==
    /\ fnArgs.kind = "provider"
    /\ fnOutcome.initAt = "idle"
    /\ fnOutcome.ids < MaxIds
    /\ \E resolved \in BOOLEAN :
         fnOutcome' = IF resolved
                      THEN [fnOutcome EXCEPT !.ids = @ + 1,
                                             !.assistantId = fnOutcome.ids + 1,
                                             !.initAt = "threads.create"]
                      ELSE [fnOutcome EXCEPT !.ids = @ + 1]
    /\ ProviderFrame

(* init(): await threads.create, which rejects or gives an id; init has
   completed when the id is stored *)
InitCreatesThread ==
    /\ fnArgs.kind = "provider"
    /\ fnOutcome.initAt = "threads.create"
    /\ \E resolved \in BOOLEAN :
         fnOutcome' = IF resolved
                      THEN [fnOutcome EXCEPT !.ids = @ + 1,
                                             !.threadId = fnOutcome.ids + 1,
                                             !.initAt = "idle",
                                             !.initDone = TRUE]
                      ELSE [fnOutcome EXCEPT !.ids = @ + 1, !.initAt = "idle"]
    /\ ProviderFrame

(* chatStateful(): the guard, and some outcome of the rest *)
ChatStateful ==
    /\ fnArgs.kind = "provider"
    /\ \E outcome \in ChatOutcomes :
         fnOutcome' = [fnOutcome EXCEPT !.lastChat =
                          [called |-> TRUE, initDone |-> fnOutcome.initDone,
                           outcome |-> IF notInitialized(fnOutcome)
                                       THEN NotInitialized ELSE outcome]]
    /\ ProviderFrame

(* cleanup() up to its first await, or to its return when there is none *)
Cleanup ==
    /\ fnArgs.kind = "provider"
    /\ fnOutcome.cleanupAt = "idle"
    /\ LET p == [fnOutcome EXCEPT !.cleaning = ~notInitialized(fnOutcome)]
       IN fnOutcome' =
            IF p.threadId # Undefined THEN [p EXCEPT !.cleanupAt = "threads.delete"]
            ELSE IF p.assistantId # Undefined THEN [p EXCEPT !.cleanupAt = "assistants.delete"]
            ELSE cleanupReturns(p, FALSE)
    /\ ProviderFrame

(* cleanup(): threads.delete settles *)
CleanupDeletesThread ==
    /\ fnArgs.kind = "provider"
    /\ fnOutcome.cleanupAt = "threads.delete"
    /\ \E deleted \in BOOLEAN :
         fnOutcome' =
            IF ~deleted THEN cleanupReturns(fnOutcome, TRUE)
            ELSE IF fnOutcome.assistantId # Undefined
            THEN [fnOutcome EXCEPT !.cleanupAt = "assistants.delete"]
            ELSE cleanupReturns(fnOutcome, FALSE)
    /\ ProviderFrame

(* cleanup(): assistants.delete settles *)
CleanupDeletesAssistant ==
    /\ fnArgs.kind = "provider"
    /\ fnOutcome.cleanupAt = "assistants.delete"
    /\ \E deleted \in BOOLEAN :
         fnOutcome' = cleanupReturns(fnOutcome, ~deleted)
    /\ ProviderFrame

ProviderNext ==
    \/ InitCreatesAssistant
    \/ InitCreatesThread
    \/ ChatStateful
    \/ Cleanup
    \/ CleanupDeletesThread
    \/ CleanupDeletesAssistant

ProviderSpec == ProviderInit /\ [][ProviderNext]_vars

(***************************************************************************)
(* wrapProviderCall.                                                       *)
(***************************************************************************)
(* type ProviderType *)
ProviderTypes == {"openai", "anthropic", "google"}

NoError == [id |-> 0, class |-> "none"]

(* an Error object; id tells one instance from another *)
ErrorObject(id, class) ==
    [id |-> id, class |-> class, provider |-> "-", context |-> "-", originalError |-> NoError]

(* new ProviderAPIError(provider, originalError, context) *)
ProviderAPIError(id, provider, originalError, context) ==
    [id |-> id, class |-> "ProviderAPIError", provider |-> provider, context |-> context,
     originalError |-> originalError]

(* the Error objects the wrapped operation throws: an Error, an object of a
   subclass of it, an APIKeyError, a ProviderAPIError of an earlier wrap *)
ThrownErrors ==
    {ErrorObject(1, "Error"), ErrorObject(1, "TypeError")}
    \cup {[ErrorObject(1, "APIKeyError") EXCEPT !.provider = p] : p \in ProviderTypes}
    \cup {ProviderAPIError(1, p, ErrorObject(2, "Error"), c) :
             p \in ProviderTypes, c \in {"first wrap", ""}}

(* how the wrapped operation settles *)
Resolved(value) == [kind |-> "returned", value |-> value, error |-> NoError]

Rejected(e) == [kind |-> "thrown", value |-> "-", error |-> e]

FnOutcomes ==
    {Resolved(v) : v \in {"success", "42", "[1,2,3]"}} \cup {Rejected(e) : e \in ThrownErrors}

alreadyWrappedKeyErrorOnly(e) == e.class = "APIKeyError"

(* error instanceof APIKeyError || error instanceof ProviderAPIError *)
alreadyWrapped(e) == e.class \in {"APIKeyError", "ProviderAPIError"}

(* the object allocated by the call is none of those it was given *)
FreshId == 3

(* try { return await fn() } catch (error) { ... } *)
wrapProviderCall(provider, context, fn) ==
    IF fn.kind = "returned" THEN Resolved(fn.value)
    ELSE IF alreadyWrapped(fn.error) THEN Rejected(fn.error)
    ELSE Rejected(ProviderAPIError(FreshId, provider, fn.error, context))

(* a call of wrapProviderCall with some provider, context and operation *)
WrapInit ==
    /\ NewGame
    /\ NoReactions
    /\ NoTrips
    /\ fnArgs \in [kind : {"wrapProviderCall"}, provider : ProviderTypes,
                   context : {"chat", "second wrap"}, fn : FnOutcomes]
    /\ fnOutcome = NotCalled

WrapProviderCall ==
    /\ fnArgs.kind = "wrapProviderCall"
    /\ fnOutcome = NotCalled
    /\ fnOutcome' = wrapProviderCall(fnArgs.provider, fnArgs.context, fnArgs.fn)
    /\ UNCHANGED <<pc, config, pack, players, roundVars, earlyEnd, accVars, calls,
                   voteVars, guessRaw, spyGuessedRight, result, lifeVars, reactVars,
                   tripVars, fnArgs>>

WrapNext == WrapProviderCall

WrapSpec == WrapInit /\ [][WrapNext]_vars

(***************************************************************************)
(* Properties.                                                             *)
(***************************************************************************)
playerNames == {players[i].name : i \in 1..Len(players)}

(* the rounds have returned without an early end *)
RoundsReturnedNormally == pc \in {"voting", "spyGuess", "score"} \/ (pc = "done" /\ ~earlyEnd.ended)

(* C1, as claimed: for every player count, every recorded Turn has a target
   other than its asker and other than the asker of the preceding Turn *)
C1_TargetLegalityAnyCount ==
    \A i \in 1..Len(turns) :
        /\ turns[i].targetId # turns[i].askerId
        /\ i > 1 => turns[i].targetId # turns[i - 1].askerId

(* C1, amended: every recorded Turn has a target other than its asker; with
   three or more players the target is also not the asker of the preceding
   Turn; with two players the target of every Turn after the first is the
   asker of the preceding Turn *)
C1_TargetLegality ==
    \A i \in 1..Len(turns) :
        /\ turns[i].targetId # turns[i].askerId
        /\ (i > 1 /\ config.numPlayers >= 3) => turns[i].targetId # turns[i - 1].askerId
        /\ (i > 1 /\ config.numPlayers = 2) => turns[i].targetId = turns[i - 1].askerId

C1_Witness == Len(turns) >= 2 /\ config.numPlayers >= 3

(* the jurors' yes and no replies of the current accusation, as called *)
jurorReplies(r) ==
    Cardinality({i \in 1..Len(calls) : calls[i].op = "voteOnAccusation" /\ calls[i].reply = r})

(* C2: once the majority test has been made, the accused is convicted if and
   only if one (the accuser) plus the jurors' yes replies reach
   floor(N/2)+1; an even split never convicts *)
C2_MajorityConviction ==
    accOutcome \in {"convicted", "failed"} =>
        LET yes == 1 + jurorReplies("yes")
            no == 1 + jurorReplies("no")
        IN /\ (accOutcome = "convicted") <=> (yes >= (Len(players) \div 2) + 1)
           /\ (yes = no) => (accOutcome = "failed")

C2_Witness == accOutcome = "convicted" /\ pc = "returned" /\ jurorReplies("yes") >= 1

(* C3, as claimed: when the question loop has returned without an early end
   the transcript holds exactly rounds entries, accusations or not *)
C3_RoundBudgetExact == RoundsReturnedNormally => Len(turns) = config.rounds

(* C3, amended: when the question loop has returned without an early end the
   transcript holds rounds entries less one for every accusation made, so
   exactly rounds entries when no accusation was made *)
C3_RoundBudget == RoundsReturnedNormally => Len(turns) + accusations = config.rounds

C3_Witness == pc = "voting" /\ accusations >= 1 /\ Len(turns) >= 1

(* C4: the final score is spy / correctly identified the location when the
   spy guessed right, else civilians / spy was caught when the accused is
   the spy, else spy / total deception *)
C4_WinResolver ==
    (pc = "done" /\ ~earlyEnd.ended) =>
        /\ spyGuessedRight =>
              result = [winner |-> "spy", reason |-> "Correctly identified the location"]
        /\ (~spyGuessedRight /\ accusedName = spy.name) =>
              result = [winner |-> "civilians", reason |-> "Spy was caught"]
        /\ (~spyGuessedRight /\ accusedName # spy.name) =>
              result = [winner |-> "spy", reason |-> "Total deception"]

C4_Witness == pc = "done" /\ ~earlyEnd.ended /\ spyGuessedRight /\ accusedName = spy.name

(* the highest count of the tally and the names that have it *)
topCount == CHOOSE c \in {votes[i].count : i \in 1..Len(votes)} :
                \A j \in 1..Len(votes) : votes[j].count <= c

topNames == {votes[i].name : i \in {j \in 1..Len(votes) : votes[j].count = topCount}}

(* C5: after the tally, isTie holds and nobody is accused exactly when two
   names share the highest count; otherwise the accused is the one name
   with the highest count *)
C5_TieLaw ==
    pc = "spyGuess" =>
        /\ isTie <=> Cardinality(topNames) >= 2
        /\ isTie => accusedName = Null
        /\ ~isTie => topNames = {accusedName}

C5_Witness == pc = "spyGuess" /\ ~isTie /\ Len(votes) >= 2

(* the sum of the counts of a tally *)
RECURSIVE sumCounts(_)
sumCounts(m) == IF m = <<>> THEN 0 ELSE Head(m).count + sumCounts(Tail(m))

(* C6: the players vote once each in roster order, never for themselves and
   always for a player; the counts sum to the votes cast, the keys are
   player names, and after the phase N votes have been cast *)
C6_FinalVoting ==
    /\ \A i \in 1..Len(voteLog) :
          /\ voteLog[i].voter = players[i].name
          /\ voteLog[i].finalVote # voteLog[i].voter
          /\ voteLog[i].finalVote \in playerNames
    /\ sumCounts(votes) = Len(voteLog)
    /\ \A i \in 1..Len(votes) :
          /\ votes[i].name \in playerNames
          /\ votes[i].count =
                Cardinality({j \in 1..Len(voteLog) : voteLog[j].finalVote = votes[i].name})
    /\ pc = "spyGuess" =>
          (Len(voteLog) = config.numPlayers /\ sumCounts(votes) = config.numPlayers)

C6_Witness == pc = "spyGuess" /\ Len(voteLog) = config.numPlayers /\ config.numPlayers >= 2

(* C7: after setup exactly one player is the spy, every other player is a
   civilian of the pack's location, and no two civilians have the same
   role *)
C7_SecretUniqueness ==
    pc # "start" =>
        /\ Cardinality({i \in 1..Len(players) : players[i].secret.kind = "SPY"}) = 1
        /\ \A i \in 1..Len(players) :
              players[i].secret.kind # "SPY" =>
                 /\ players[i].secret.kind = "CIVILIAN"
                 /\ players[i].secret.location = pack.location
        /\ \A i, j \in 1..Len(players) :
              (i # j /\ players[i].secret.kind = "CIVILIAN"
                     /\ players[j].secret.kind = "CIVILIAN")
                 => players[i].secret.role # players[j].secret.role

(* a guessLocation reply has just been judged *)
GuessJudged ==
    /\ pc \in {"returned", "score"}
    /\ calls # <<>>
    /\ calls[Len(calls)].op = "guessLocation"

(* the verdict on the reply *)
JudgedCorrect == IF pc = "score" THEN spyGuessedRight ELSE earlyEnd.winner = "spy"

(* C8, as claimed: at the location Airplane the replies "GUESS: Airplane",
   "guess:  AIRPLANE  " and "GUESS: the Airplane " are all judged correct *)
C8_GuessMatchesWithArticle ==
    (GuessJudged /\ pack.location = Airplane
        /\ guessRaw \in {GuessExact, GuessShout, GuessThe}) => JudgedCorrect

(* C8, amended: the guess is judged correct when it equals the location
   name up to letter case and surrounding whitespace: at the location
   Airplane "GUESS: Airplane" and "guess:  AIRPLANE  " are correct, and
   "GUESS: the Airplane ", another location, the empty and the null reply
   are not *)
C8_GuessComparison ==
    (GuessJudged /\ pack.location = Airplane) =>
        /\ guessRaw \in {GuessExact, GuessShout} => JudgedCorrect
        /\ guessRaw \in {GuessThe, GuessBank, <<>>, Null} => ~JudgedCorrect

C8_Witness == GuessJudged /\ pc = "score" /\ guessRaw = GuessShout /\ spyGuessedRight

(* C9: when the name returned by accuse is the accuser's own or nobody's,
   handleAccusation is back at once with {ended: false}, having called
   accuse and nothing else *)
C9_VoidAccusation ==
    (accuser # NoPlayer
        /\ accusation \in {<<>>, Bob, accuser.name, Shout(accuser.name)}) =>
        /\ pc = "returned"
        /\ accOutcome = "void"
        /\ earlyEnd = NotEnded
        /\ calls = <<Call("accuse", accuser.name, FALSE, "-")>>

C9_Witness == pc = "returned" /\ accOutcome = "void" /\ accusation = Shout(accuser.name)

(* C10: when handleAccusation returns after convicting the spy, the spy's
   controller has been asked for exactly one guess, with whenCaught true,
   and the result is ended with winner spy when the guess is the location
   and winner civilians when it is wrong, empty or null *)
C10_SpyConvicted ==
    (pc = "returned" /\ accOutcome = "convicted" /\ accused.id = spy.id) =>
        /\ Cardinality({i \in 1..Len(calls) : calls[i].op = "guessLocation"}) = 1
        /\ calls[Len(calls)] = Call("guessLocation", spy.name, TRUE, "-")
        /\ earlyEnd.ended
        /\ guessRaw \in {GuessExact, GuessShout} => earlyEnd.winner = "spy"
        /\ guessRaw \in {GuessThe, GuessBank, <<>>, Null} => earlyEnd.winner = "civilians"

C10_Witness ==
    /\ pc = "returned" /\ accOutcome = "convicted" /\ accused.id = spy.id
    /\ earlyEnd.ended /\ earlyEnd.winner = "spy"

(* the guessLocation calls among the controller calls of the current phase *)
guessCalls == {i \in 1..Len(calls) : calls[i].op = "guessLocation"}

(* C11: when handleAccusation returns after convicting a player who is not
   the spy, the result is ended with winner spy and the spy's controller
   has not been asked for a guess *)
C11_InnocentConvicted ==
    (pc = "returned" /\ accOutcome = "convicted" /\ accused.id # spy.id) =>
        /\ earlyEnd.ended
        /\ earlyEnd.winner = "spy"
        /\ guessCalls = {}
        /\ guessRaw = Null

C11_Witness ==
    /\ pc = "returned" /\ accOutcome = "convicted"
    /\ accused # NoPlayer /\ accused.id # spy.id
    /\ jurorReplies("yes") >= 1

(* C12: when the majority test finds one (the accuser) plus the jurors' yes
   replies below floor(N/2)+1, the accused is not convicted,
   handleAccusation returns {ended: false} with no winner and no guess
   call, and the question loop goes on; so with four players and two yes
   against two no *)
C12_FailedAccusation ==
    [][(/\ pc = "returned"
        /\ accOutcome \in {"convicted", "failed"}
        /\ 1 + jurorReplies("yes") < (Len(players) \div 2) + 1) =>
           /\ accOutcome = "failed"
           /\ earlyEnd = NotEnded
           /\ guessCalls = {}
           /\ guessRaw = Null
           /\ result = NoResult
           /\ pc' = "loop"
           /\ earlyEnd' = NotEnded
           /\ result' = NoResult]_vars

C12_Witness ==
    /\ pc = "returned" /\ accOutcome = "failed"
    /\ Len(players) >= 3 /\ jurorReplies("no") >= 1

(* the spy's voluntary guess has just been judged and names the location *)
VoluntaryGuessRight ==
    /\ pc = "returned"
    /\ calls = <<Call("guessLocation", spy.name, FALSE, "-")>>
    /\ pack.location = Airplane
    /\ guessRaw \in {GuessExact, GuessShout}

(* the EarlyEndResult of a right voluntary guess *)
VoluntaryGuessWon ==
    earlyEnd = [ended |-> TRUE, winner |-> "spy",
                reason |-> "Spy correctly guessed the location!"]

(* C13: a voluntary guess that names the location gives the EarlyEndResult
   with winner spy, and from then on the session only announces it and
   settles: no Turn is recorded, no accusation is made, no final vote is
   cast and no controller is called *)
C13_VoluntaryGuessEnds ==
    [][/\ VoluntaryGuessRight => VoluntaryGuessWon
       /\ VoluntaryGuessWon =>
             /\ pc' \in {"earlyEnd", "done", "settled"}
             /\ error' = "none"
             /\ earlyEnd' = earlyEnd
             /\ turns' = turns
             /\ accusations' = accusations
             /\ voteLog' = <<>> /\ votes' = <<>>
             /\ calls' = <<>>
             /\ pc' \in {"done", "settled"} => result'.winner = "spy"]_vars

C13_Witness ==
    /\ VoluntaryGuessRight /\ guessRaw = GuessExact
    /\ Len(turns) >= 1

(* the final vote calls among the controller calls of the current phase *)
voteCalls == {i \in 1..Len(calls) : calls[i].op = "vote"}

(* the three results of the Win Resolver *)
FinalScores ==
    {[winner |-> "spy", reason |-> "Correctly identified the location"],
     [winner |-> "civilians", reason |-> "Spy was caught"],
     [winner |-> "spy", reason |-> "Total deception"]}

(* C14: the voting phase, the tally, the final guess and the final score
   are reached only when the rounds returned without an early end, and then
   they all run; after an early end no final vote is asked for, nothing is
   tallied, and the announced winner and reason are those of the
   EarlyEndResult *)
C14_PhaseGating ==
    /\ pc \in {"voting", "spyGuess", "score"} => earlyEnd = NotEnded
    /\ (pc \in {"earlyEnd", "done"} /\ earlyEnd.ended) =>
          /\ voteCalls = {} /\ voteLog = <<>> /\ votes = <<>>
          /\ accusedName = Null /\ ~isTie /\ ~spyGuessedRight
          /\ pc = "done" => result = [winner |-> earlyEnd.winner, reason |-> earlyEnd.reason]
    /\ (pc = "done" /\ ~earlyEnd.ended) =>
          /\ isTie \/ accusedName \in playerNames
          /\ result \in FinalScores
    /\ pc = "earlyEnd" => earlyEnd.ended

C14_Witness == pc = "done" /\ earlyEnd.ended /\ earlyEnd.winner = "civilians"

(***************************************************************************)
(* C15: once run() has started a session, its cleanup step has cleaned up  *)
(* every agent created for the session and has closed the human input      *)
(* interface by the time run() settles, after a normal end and after an    *)
(* error in any phase, setup included.                                     *)
(***************************************************************************)
C15_CleanupGuarantee ==
    pc = "settled" =>
        /\ \A i \in 1..Len(created) : created[i] \in cleaned
        /\ rl = "null"
        /\ config.includeHuman => rlClosed
        /\ ~running

(* the controller calls of the claim, by the name of the method called *)
ControllerCalls ==
    {"ask", "answer", "accuse", "defendAgainstAccusation", "voteOnAccusation",
     "vote", "guessLocation", "react", "chooseAction"}

(***************************************************************************)
(* C16: when a controller call (ask, answer, accuse, defend, jury vote,    *)
(* final vote, guess, react) has failed, the session is aborted with that  *)
(* error: it is in no phase any more, it awaits no controller call (the    *)
(* failed call is not retried, no value stands in for its reply, no later  *)
(* call is issued) and no winner has been announced.                       *)
(***************************************************************************)
C16_CallFailureAborts ==
    error \in ControllerCalls =>
        /\ pc \in {"aborted", "settled"}
        /\ pendingCalls = {}
        /\ calls = <<>>
        /\ ~earlyEnd.ended
        /\ result = NoResult

(* the final vote of the second player has failed after the first vote
   was counted, and run() has settled *)
C16_Witness == pc = "settled" /\ error = "vote" /\ result = NoResult

(* whatever text the awaited call returns, the step that takes it has an
   outcome: an action, a target, a counted vote *)
EveryReplyAccepted ==
    /\ pc = "loop" /\ loopContinues(roundCount, config.rounds) =>
          \A choice \in chooseAction(currentAsker, allowEarlyVote) :
              legalAction(choice, currentAsker, allowEarlyVote)
                  \in {"question", "guess", "vote"}
    /\ pc = "ask" =>
          \A targetName \in NameInputs(players) :
              resolveOtherPlayer(players, targetName, currentAsker.id, lastAsker.id) # {}
    /\ pc = "voting" /\ Len(voteLog) < Len(players) =>
          \A rawVote \in VoteInputs(players) :
              finalVoteOf(players, players[Len(voteLog) + 1], rawVote) # {}
    /\ error = "none"

(* run() has settled after announcing an early-end result or a final score *)
FinalOutcome == pc = "settled" /\ result # NoResult /\ error = "none"

(***************************************************************************)
(* C17: when every controller call returns, with whatever text (empty,     *)
(* without the expected field, naming nobody), every reply is taken by     *)
(* the step awaiting it, no error arises, and the session eventually       *)
(* reaches a final outcome: an early-end result or a final score.          *)
(***************************************************************************)
C17_ForwardProgress == []EveryReplyAccepted /\ <>FinalOutcome

(* a session that spent a round on an accusation has reached its outcome *)
C17_Witness == FinalOutcome /\ accusations > 0 /\ Len(turns) < config.rounds

(* a session of three or more players has ended with a final score, no
   accusation was made in it, and every civilian's final vote named the spy *)
UnanimousAgainstSpy ==
    /\ pc \in {"done", "settled"}
    /\ error = "none"
    /\ ~earlyEnd.ended
    /\ Len(players) >= 3
    /\ accusations = 0
    /\ unanimous

(***************************************************************************)
(* C18 as stated (Scenario A; the sessions of the model have 3 players,    *)
(* and 4 with the bounds raised): after a final vote that is unanimous     *)
(* against the spy, in a session without accusations, the winner is        *)
(* civilians with the reason "Spy was caught".                             *)
(***************************************************************************)
C18_UnanimousVoteCivilians ==
    UnanimousAgainstSpy => result = [winner |-> "civilians", reason |-> "Spy was caught"]

(***************************************************************************)
(* C18 amended: after a final vote that is unanimous against the spy, in   *)
(* a session without accusations, the spy is the accused, there is no tie, *)
(* and the winner is civilians with the reason "Spy was caught" when the   *)
(* spy's final guess is wrong; when the guess names the location the spy   *)
(* wins with the reason "Correctly identified the location".               *)
(***************************************************************************)
C18_UnanimousVote ==
    UnanimousAgainstSpy =>
        /\ accusedName = spy.name
        /\ ~isTie
        /\ result = IF spyGuessedRight
                    THEN [winner |-> "spy", reason |-> "Correctly identified the location"]
                    ELSE [winner |-> "civilians", reason |-> "Spy was caught"]

C18_Witness == UnanimousAgainstSpy /\ result.winner = "civilians" /\ Len(turns) = config.rounds

(***************************************************************************)
(* C19: when the final vote is tied, whoever the tied candidates are, no   *)
(* player is accused, the spy is asked for one final guess, and the spy    *)
(* wins: with "Correctly identified the location" when the guess is right, *)
(* with "Total deception" when it is wrong.                                *)
(***************************************************************************)
C19_TiedVote ==
    /\ pc = "spyGuess" /\ Cardinality(topNames) > 1 => isTie
    /\ isTie => accusedName = Null
    /\ pc = "score" /\ isTie =>
          /\ calls = <<Call("guessLocation", spy.name, TRUE, "-")>>
          /\ spyGuessedRight = guessIsCorrect(guessRaw, pack)
    /\ pc \in {"done", "settled"} /\ isTie =>
          result = IF spyGuessedRight
                   THEN [winner |-> "spy", reason |-> "Correctly identified the location"]
                   ELSE [winner |-> "spy", reason |-> "Total deception"]

(* a tied vote was followed by a wrong guess *)
C19_Witness == pc = "done" /\ isTie /\ ~spyGuessedRight /\ result.winner = "spy"

(* the action a controller returns is legal for the player and the gate *)
legalFor(action, self, canAccuse) ==
    /\ action \in {"question", "guess", "vote"}
    /\ action = "guess" => self.secret.kind = "SPY"
    /\ action = "vote" => canAccuse

(***************************************************************************)
(* C20: the action acted on for a turn is "guess" only when the asker is   *)
(* the spy and "vote" (an accusation) only when accusations are allowed:   *)
(* whatever an AI controller's model replies or a human types, an illegal, *)
(* empty or unparseable choice comes out as "question"; the voluntary      *)
(* guess is only ever asked of the spy, and an accusation only runs when   *)
(* the session allows it.                                                  *)
(***************************************************************************)
C20_ActionLegality ==
    /\ pc = "loop" /\ loopContinues(roundCount, config.rounds) =>
          /\ \A raw \in ActionInputs :
                legalFor(aiChooseAction(raw, currentAsker, allowEarlyVote),
                         currentAsker, allowEarlyVote)
          /\ \A input \in HumanActionInputs :
                legalFor(humanChooseAction(input, currentAsker, allowEarlyVote),
                         currentAsker, allowEarlyVote)
          /\ aiChooseAction(<<>>, currentAsker, allowEarlyVote) = "question"
          /\ humanChooseAction(<<>>, currentAsker, allowEarlyVote) = "question"
          /\ currentAsker.secret.kind # "SPY" /\ ~allowEarlyVote =>
                chooseAction(currentAsker, allowEarlyVote) = {"question"}
    /\ pc = "earlyGuess" => currentAsker.id = spy.id
    /\ pc \in {"accuse", "defend", "jury", "caughtGuess"} => allowEarlyVote
    /\ \A i \in 1..Len(calls) :
          calls[i].op = "guessLocation" /\ ~calls[i].whenCaught => calls[i].who = spy.name

(* a civilian's turn in a session without early accusations has become a
   question, whatever the reply to the action prompt was *)
C20_Witness ==
    /\ pc = "ask"
    /\ currentAsker.secret.kind = "CIVILIAN"
    /\ ~allowEarlyVote
    /\ roundCount > 0

(* the names of the players whose controller has been asked for a jury vote
   in the current accusation, in the order of the calls *)
juryCallNames ==
    LET isJuryCall(c) == c.op = "voteOnAccusation"
        juryCalls == SelectSeq(calls, isJuryCall)
    IN [i \in 1..Len(juryCalls) |-> juryCalls[i].who]

(* the names of a sequence of players *)
namesOf(ps) == [i \in 1..Len(ps) |-> ps[i].name]

(* the players of the roster other than the accuser and the accused *)
othersThanParties ==
    LET isOther(p) == p.id \notin {accuser.id, accused.id}
    IN SelectSeq(players, isOther)

(***************************************************************************)
(* C21: in a valid accusation, from the forming of the jury to the return  *)
(* of handleAccusation, the voteOnAccusation calls made so far followed by *)
(* the jurors still to be asked are the players other than the accuser and *)
(* the accused, each once, in roster order; the accuser's and the          *)
(* accused's controllers get no such call, and the tallies are the fixed   *)
(* yes of the accuser and the fixed no of the accused plus the jurors'     *)
(* replies. When the majority test is made every juror has been asked.     *)
(***************************************************************************)
C21_JuryComposition ==
    (accOutcome \in {"pending", "convicted", "failed"}
        /\ pc \in {"jury", "caughtGuess", "returned"}) =>
        /\ juryCallNames \o namesOf(voters) = namesOf(othersThanParties)
        /\ \A i \in 1..Len(juryCallNames) :
               juryCallNames[i] \notin {accuser.name, accused.name}
        /\ yesVotes = 1 + jurorReplies("yes")
        /\ noVotes = 1 + jurorReplies("no")
        /\ accOutcome \in {"convicted", "failed"} =>
               /\ voters = <<>>
               /\ yesVotes + noVotes = Len(players)

(* a jury of one has been asked and the majority test has been made *)
C21_Witness ==
    /\ pc = "returned" /\ accOutcome \in {"convicted", "failed"}
    /\ Len(juryCallNames) >= 1
    /\ yesVotes + noVotes = Len(players)

(* the positions in reactors whose react() has not settled *)
outstandingReacts == {i \in 1..Len(reactions) : reactions[i] = Pending}

(* the positions in reactors whose reaction is logged: those with an emoji
   and a text, in increasing order *)
shownPositions ==
    LET isShown(i) == reactions[i].emoji # "" /\ reactions[i].reaction # ""
    IN SelectSeq([i \in 1..Len(reactions) |-> i], isShown)

(* the logged lines that open a reaction (the suspicion lines left out) *)
reactionHeads ==
    LET isHead(l) == l.emoji # ""
    IN SelectSeq(reactLog, isHead)

(***************************************************************************)
(* C22: collectReactions starts the react() call of every reactor before   *)
(* it awaits any of them, so all of them are outstanding together; it logs *)
(* nothing while one of them is outstanding; and what it logs on return    *)
(* are the reactions that have an emoji and a text, one per such reactor,  *)
(* in the order of the reactors list, whatever the order in which the      *)
(* calls completed.                                                        *)
(***************************************************************************)
C22_ReactionFanOut ==
    /\ reactPc \in {"awaiting", "rejected"} =>
           /\ Len(reactions) = Len(reactors)
           /\ Cardinality(outstandingReacts) = Len(reactors) - Len(completionOrder)
           /\ reactLog = <<>>
    /\ reactLog # <<>> => (reactPc = "returned" /\ outstandingReacts = {})
    /\ reactPc = "returned" =>
           /\ Len(reactionHeads) = Len(shownPositions)
           /\ \A k \in 1..Len(shownPositions) :
                  /\ reactionHeads[k].name = reactors[shownPositions[k]].name
                  /\ reactionHeads[k].text = reactions[shownPositions[k]].reaction

(* two reactions have been logged although the later reactor's call
   completed first *)
C22_Witness ==
    /\ reactPc = "returned"
    /\ Len(reactionHeads) >= 2
    /\ Len(completionOrder) >= 2
    /\ completionOrder[1] > completionOrder[2]
    /\ reactions[completionOrder[1]].emoji # "" /\ reactions[completionOrder[1]].reaction # ""
    /\ reactions[completionOrder[2]].emoji # "" /\ reactions[completionOrder[2]].reaction # ""

(* the controller calls of the loop that have settled *)
settledTrips == cursor - Cardinality(inFlight)

(* the state part of C23: one call in flight at most, and it is the last
   one issued; a loop has taken the effect of every call but that one *)
OneCallAtATime ==
    /\ Cardinality(inFlight) <= 1
    /\ \A call \in inFlight :
          /\ call.n = cursor
          /\ call.op = "ask" => call.who = currentAsker.name
          /\ call.op = "answer" =>
                 call.who = resolvedTarget.name /\ call.who # currentAsker.name
          /\ call.op = "voteOnAccusation" => call.who = othersThanParties[cursor].name
          /\ call.op = "vote" => call.who = players[cursor].name
    /\ pc \in {"questions", "asking", "answering"} => Len(turns) = settledTrips \div 2
    /\ pc \in {"jury", "juryVoting"} => (yesVotes - 1) + (noVotes - 1) = settledTrips
    /\ pc \in {"voting", "castingVote"} => Len(voteLog) = settledTrips
    /\ \A k \in 1..Len(voteLog) : voteLog[k].voter = players[k].name

(* the step part of C23: the transcript, the jury tally and the final tally
   change only in the step in which the one call in flight returns, and no
   call is issued while one is in flight except by the step that takes the
   return of the other *)
MutatesOnReturnOnly ==
    /\ (turns' # turns \/ yesVotes' # yesVotes \/ noVotes' # noVotes \/ votes' # votes) =>
           (Cardinality(inFlight) = 1 /\ inFlight' = {})
    /\ (inFlight' \ inFlight # {}) =>
           (Cardinality(inFlight' \ inFlight) = 1 /\ inFlight' \cap inFlight = {})

(***************************************************************************)
(* C23: in the question loop, the jury loop and the final voting loop at   *)
(* most one controller call is outstanding at any time; the final votes    *)
(* and the jury votes are requested one player at a time in roster order,  *)
(* each after the return of the one before; and the transcript and the     *)
(* tallies change only when the single outstanding call returns.           *)
(***************************************************************************)
C23_SequentialRoundTrips == []OneCallAtATime /\ [][MutatesOnReturnOnly]_vars

(* the second final vote is in flight after the first has been counted *)
C23_Witness ==
    /\ pc = "castingVote"
    /\ cursor = 2 /\ Len(voteLog) = 1
    /\ inFlight = {Trip("vote", players[2].name, 2)}

(***************************************************************************)
(* C24: the last recorded Turn names the present lastAsker as its asker    *)
(* and the present current asker as its target, whatever accusations have  *)
(* been made since; and in every two consecutive Turns the asker of the    *)
(* later one is the target of the earlier one.                             *)
(***************************************************************************)
C24_InitiativePassing ==
    /\ \A i \in 2..Len(turns) : turns[i].askerId = turns[i - 1].targetId
    /\ turns # <<>> =>
           /\ lastAsker.name = turns[Len(turns)].askerId
           /\ currentAsker.name = turns[Len(turns)].targetId

(* two questions have been recorded *)
C24_Witness ==
    /\ Len(turns) >= 2
    /\ turns[2].askerId = turns[1].targetId
    /\ currentAsker.name = turns[2].targetId

(* the controller calls of the Accusation Sub-protocol *)
AccusationCalls == {"accuse", "defendAgainstAccusation", "voteOnAccusation"}

(* the actions a round can start with, over every reply to chooseAction *)
actionsOnOffer ==
    {legalAction(choice, currentAsker, allowEarlyVote) :
        choice \in chooseAction(currentAsker, allowEarlyVote)}

(***************************************************************************)
(* C25: in a session whose configuration has allowEarlyVote = false no     *)
(* accusation is ever started: handleAccusation is not entered, no accuse, *)
(* defendAgainstAccusation or voteOnAccusation call is made or awaited,    *)
(* and no round starts with an accusation, whatever is replied to          *)
(* chooseAction. In a session whose configuration has no allowEarlyVote    *)
(* a round can start with an accusation, as when it is true.               *)
(***************************************************************************)
C25_AccusationGate ==
    /\ ("allowEarlyVote" \in DOMAIN config /\ ~config.allowEarlyVote) =>
           /\ accusations = 0
           /\ pc \notin {"accuse", "defend", "jury", "caughtGuess"}
           /\ pendingCalls \cap AccusationCalls = {}
           /\ \A i \in 1..Len(calls) : calls[i].op \notin AccusationCalls
           /\ accOutcome = "none"
           /\ (pc = "loop" /\ loopContinues(roundCount, config.rounds)) =>
                  "vote" \notin actionsOnOffer
    /\ ("allowEarlyVote" \notin DOMAIN config
            /\ pc = "loop" /\ loopContinues(roundCount, config.rounds)) =>
           "vote" \in actionsOnOffer

(* a session without early accusations has reached its final vote, every
   round having started with a reply to chooseAction *)
C25_Witness ==
    /\ "allowEarlyVote" \in DOMAIN config /\ ~config.allowEarlyVote
    /\ pc = "voting"
    /\ roundCount = config.rounds
    /\ accusations = 0

(***************************************************************************)
(* C26: the rounds of the configuration handleStart hands to game.run() is *)
(* an integer from 1 to 30 for every rounds parameter: missing, empty,     *)
(* not a number, zero, negative, fractional, hexadecimal or above 30.      *)
(***************************************************************************)
C26_RoundsParameterBound ==
    (fnArgs.kind = "handleStart" /\ fnOutcome # NotCalled) =>
        /\ ~fnOutcome.rounds.nan
        /\ fnOutcome.rounds.n \in 1..30

(* a game has been started with rounds=999 *)
C26_Witness ==
    /\ fnArgs = [kind |-> "handleStart", rounds |-> <<"9", "9", "9">>]
    /\ fnOutcome = [kind |-> "run", rounds |-> Num(30)]

(***************************************************************************)
(* C27: wrapProviderCall returns what the operation returns; it re-throws  *)
(* the very APIKeyError or ProviderAPIError the operation throws, with its *)
(* provider and context as they were; and for any other Error object it    *)
(* throws a new ProviderAPIError carrying the provider and the context of  *)
(* the call and the thrown object as originalError.                        *)
(***************************************************************************)
C27_WrapProviderCall ==
    (fnArgs.kind = "wrapProviderCall" /\ fnOutcome # NotCalled) =>
        LET fn == fnArgs.fn
        IN /\ fn.kind = "returned" => fnOutcome = fn
           /\ (fn.kind = "thrown" /\ fn.error.class \in {"APIKeyError", "ProviderAPIError"}) =>
                  /\ fnOutcome.kind = "thrown"
                  /\ fnOutcome.error = fn.error
           /\ (fn.kind = "thrown" /\ fn.error.class \notin {"APIKeyError", "ProviderAPIError"}) =>
                  /\ fnOutcome.kind = "thrown"
                  /\ fnOutcome.error.class = "ProviderAPIError"
                  /\ fnOutcome.error.id # fn.error.id
                  /\ fnOutcome.error.provider = fnArgs.provider
                  /\ fnOutcome.error.context = fnArgs.context
                  /\ fnOutcome.error.originalError = fn.error

(* a ProviderAPIError of an earlier wrap has come out of a second wrap *)
C27_Witness ==
    /\ fnArgs.kind = "wrapProviderCall" /\ fnArgs.context = "second wrap"
    /\ fnArgs.fn.kind = "thrown" /\ fnArgs.fn.error.class = "ProviderAPIError"
    /\ fnOutcome.kind = "thrown"
    /\ fnOutcome.error.context = "first wrap"

(***************************************************************************)
(* C28: in every state the transcript holds at most rounds Turns and       *)
(* roundCount, which counts the runs of the loop body, is at most rounds;  *)
(* every Turn was recorded by a run of the loop body of its own.           *)
(***************************************************************************)
C28_BoundedTranscript ==
    /\ Len(turns) <= config.rounds
    /\ roundCount <= config.rounds
    /\ Len(turns) <= roundCount
    /\ pc \in {"ask", "earlyGuess", "accuse", "defend", "jury", "caughtGuess"} =>
           Len(turns) < roundCount

(* the last round has recorded the last Turn the budget allows *)
C28_Witness ==
    /\ pc = "loop"
    /\ config.rounds >= 2
    /\ roundCount = config.rounds
    /\ Len(turns) = config.rounds

(* a step of the question step that appends one Turn and keeps the others *)
AppendsOneTurn ==
    /\ pc = "ask"
    /\ Len(turns') = Len(turns) + 1
    /\ SubSeq(turns', 1, Len(turns)) = turns
    /\ turns'[Len(turns')].askerId = currentAsker.name

(***************************************************************************)
(* C29: a step of the session either leaves the transcript as it is or is  *)
(* the question step appending one Turn after the Turns already recorded,  *)
(* which stay as they are; so the steps of an accusation (void, failed or  *)
(* convicting), of a spy guess and of the final voting phase leave the     *)
(* transcript unchanged. (When a controller call fails, run() is left and  *)
(* the transcript is dropped with the other locals.)                       *)
(***************************************************************************)
C29_TranscriptFrame ==
    [][\/ turns' = turns
       \/ AppendsOneTurn
       \/ pc' = "aborted"]_vars

(* a failed accusation has returned with a Turn on the transcript *)
C29_Witness ==
    /\ pc = "returned" /\ accOutcome = "failed"
    /\ Len(turns) >= 1

(* the players a nominated name stands for: those whose name is the
   nominated one up to letter case and surrounding white space, and who are
   neither the asker nor lastAsker *)
legalNominees(targetName) ==
    {players[i] : i \in {k \in 1..Len(players) :
        /\ normalizedName[players[k].name] = normalizedName[targetName]
        /\ players[k].id # currentAsker.id
        /\ players[k].id # lastAsker.id}}

(***************************************************************************)
(* C30: when the asker's nomination is resolved, a name that stands for a  *)
(* player who is neither the asker nor lastAsker resolves to that player   *)
(* and to no other; a name that is empty, unknown, the asker's own or      *)
(* lastAsker's resolves to some player other than the asker, who is not    *)
(* lastAsker either when a third player exists.                            *)
(***************************************************************************)
C30_TargetResolution ==
    pc = "ask" =>
        \A targetName \in NameInputs(players) :
            LET resolved == resolveOtherPlayer(players, targetName, currentAsker.id,
                                               lastAsker.id)
            IN /\ resolved # {}
               /\ legalNominees(targetName) # {} => resolved = legalNominees(targetName)
               /\ \A p \in resolved : p.id # currentAsker.id
               /\ (legalNominees(targetName) = {} /\ Len(players) >= 3) =>
                      \A p \in resolved : p.id # lastAsker.id

(* with three players, the second question is about to be asked: the one
   legal nomination, the two illegal ones and the unknown names are all
   there to resolve *)
C30_Witness ==
    /\ pc = "ask"
    /\ Len(players) = 3
    /\ lastAsker # NoPlayer
    /\ \E targetName \in NameInputs(players) :
          /\ legalNominees(targetName) # {}
          /\ targetName \notin playerNames
    /\ legalNominees(lastAsker.name) = {}

(* handleEarlySpyGuess has just returned *)
VoluntaryGuessReturned ==
    /\ pc = "returned"
    /\ calls = <<Call("guessLocation", spy.name, FALSE, "-")>>

(* the session has been ended by a voluntary guess *)
EndedByVoluntaryGuess ==
    /\ earlyEnd.ended
    /\ earlyEnd.reason \in {"Spy correctly guessed the location!", "Spy guessed wrong!"}

(***************************************************************************)
(* C31: handleEarlySpyGuess always returns an ended result: winner spy for *)
(* a guess that names the location, winner civilians for a wrong, an empty *)
(* and a null guess; and once it has returned, the session only announces  *)
(* that result and settles: no round starts, no Turn is recorded, no       *)
(* accusation is made, no final vote is cast and no controller is called.  *)
(***************************************************************************)
C31_VoluntaryGuessAlwaysEnds ==
    [][/\ VoluntaryGuessReturned =>
             /\ EndedByVoluntaryGuess
             /\ guessRaw \in {GuessExact, GuessShout} => earlyEnd.winner = "spy"
             /\ guessRaw \in {Null, <<>>, GuessThe, GuessBank} => earlyEnd.winner = "civilians"
       /\ EndedByVoluntaryGuess =>
             /\ pc \in {"returned", "earlyEnd", "done", "settled"}
             /\ pc' \in {"earlyEnd", "done", "settled"}
             /\ pendingCalls = {}
             /\ error' = "none"
             /\ earlyEnd' = earlyEnd
             /\ roundCount' = roundCount
             /\ turns' = turns
             /\ accusations' = accusations
             /\ voteLog' = <<>> /\ votes' = <<>>
             /\ pc' \in {"done", "settled"} => result'.winner = earlyEnd.winner]_vars

(* the spy has guessed nothing at all in the first round of a session that
   had a round to go *)
C31_Witness ==
    /\ VoluntaryGuessReturned
    /\ guessRaw = Null
    /\ earlyEnd.winner = "civilians"
    /\ roundCount < config.rounds

(* the final vote names the spy or is tied *)
SpyMayGuess == isTie \/ accusedName = spy.name

(***************************************************************************)
(* C32: after the final vote has been tallied the spy's controller is      *)
(* awaited for a guess exactly when the vote is tied or the accused is the *)
(* spy, and when runSpyGuessIfEligible has returned it has made one        *)
(* guessLocation call in that case and none otherwise; when an innocent    *)
(* player is accused without a tie, spyGuessedRight is false and the score *)
(* is spy, "Total deception".                                              *)
(***************************************************************************)
C32_FinalGuessEligibility ==
    /\ pc = "spyGuess" => (("guessLocation" \in pendingCalls) <=> SpyMayGuess)
    /\ pc = "score" =>
          /\ SpyMayGuess <=> (calls = <<Call("guessLocation", spy.name, TRUE, "-")>>)
          /\ ~SpyMayGuess => (calls = <<>> /\ ~spyGuessedRight)
    /\ (pc \in {"done", "settled"} /\ error = "none" /\ ~earlyEnd.ended /\ ~SpyMayGuess) =>
          /\ ~spyGuessedRight
          /\ result = [winner |-> "spy", reason |-> "Total deception"]

(* an innocent player was accused without a tie and the score is out *)
C32_Witness ==
    /\ pc = "done" /\ ~earlyEnd.ended
    /\ ~isTie /\ accusedName # Null /\ accusedName # spy.name
    /\ result = [winner |-> "spy", reason |-> "Total deception"]

(* the majority test of a valid accusation is about to be made or has been
   made *)
MajorityTestReached ==
    \/ pc = "jury" /\ voters = <<>>
    \/ accOutcome \in {"convicted", "failed"}

(***************************************************************************)
(* C33: in a valid accusation the yes count and the no count are each at   *)
(* least one from the forming of the jury on, they add up with the jurors  *)
(* still to vote to the number of players, and so to exactly the number of *)
(* players when the majority test is made.                                 *)
(***************************************************************************)
C33_JuryTallyConservation ==
    /\ (pc = "jury" \/ accOutcome \in {"convicted", "failed"}) =>
          /\ yesVotes >= 1
          /\ noVotes >= 1
          /\ yesVotes + noVotes + Len(voters) = Len(players)
    /\ MajorityTestReached => yesVotes + noVotes = Len(players)

(* three players: the one juror has voted and the test is about to be made *)
C33_Witness ==
    /\ pc = "jury" /\ voters = <<>>
    /\ Len(players) = 3
    /\ yesVotes + noVotes = 3

(* the controller calls of the accusation under way, by name of method *)
callOps == [i \in 1..Len(calls) |-> calls[i].op]

(* the method names of a valid accusation in the order of the code, for a
   jury of n and with or without the convicted spy's guess *)
stepOrder(n, guessed) ==
    <<"accuse", "defendAgainstAccusation">>
        \o [i \in 1..n |-> "voteOnAccusation"]
        \o (IF guessed THEN <<"guessLocation">> ELSE <<>>)

(***************************************************************************)
(* C34: within a valid accusation the controller calls are made in the     *)
(* order accuse (by the accuser), defendAgainstAccusation (by the          *)
(* accused), voteOnAccusation by each juror in roster order and, last and  *)
(* only when the tally has convicted the spy, guessLocation (by the spy).  *)
(* No juror is asked before the defense exists, and each juror is handed   *)
(* the defense that the accused returned.                                  *)
(***************************************************************************)
C34_AccusationStepOrder ==
    (accOutcome \in {"pending", "convicted", "failed"}
        /\ pc \in {"defend", "jury", "caughtGuess", "returned"}) =>
        LET asked == Len(othersThanParties) - Len(voters)
            guessed == Len(calls) > 0 /\ calls[Len(calls)].op = "guessLocation"
        IN /\ calls[1].op = "accuse" /\ calls[1].who = accuser.name
           /\ pc = "defend" => (calls = <<calls[1]>> /\ defenseResult = NoDefense)
           /\ pc # "defend" =>
                 /\ callOps = stepOrder(asked, guessed)
                 /\ calls[2].who = accused.name
                 /\ calls[2].reply = defenseResult
                 /\ defenseResult \in DefenseInputs
                 /\ \A i \in 1..asked :
                       /\ calls[i + 2].who = othersThanParties[i].name
                       /\ calls[i + 2].defense = defenseResult
                 /\ guessed =>
                       /\ pc = "returned" /\ accOutcome = "convicted"
                       /\ voters = <<>>
                       /\ accused.id = spy.id
                       /\ yesVotes >= majority(Len(players))
                       /\ calls[Len(calls)].who = spy.name
                       /\ calls[Len(calls)].whenCaught
                 /\ (pc = "returned" /\ accOutcome = "convicted" /\ accused.id = spy.id)
                       => guessed

(* the spy is convicted by a jury of one that heard the defense, and has
   made the last guess *)
C34_Witness ==
    /\ pc = "returned" /\ accOutcome = "convicted"
    /\ Len(calls) = 4
    /\ calls[3].op = "voteOnAccusation" /\ calls[3].defense = defenseResult
    /\ calls[4].op = "guessLocation"

(***************************************************************************)
(* C36: when run() has settled, after a normal end, after a session error  *)
(* and after the failure of an agent's cleanup alike, the running flag is  *)
(* false and the input interface is closed and cleared, so that a later    *)
(* run() starts a new session.                                             *)
(***************************************************************************)
C36_InstanceReusable ==
    pc = "settled" =>
        /\ ~running
        /\ rl = "null"
        /\ config.includeHuman => rlClosed

(* everything a session of run() sets up, calls, announces or cleans up *)
sessionVars ==
    <<pc, config, pack, players, roundVars, earlyEnd, accVars, calls, voteVars,
      guessRaw, spyGuessedRight, result, lifeVars, reactVars, tripVars>>

(***************************************************************************)
(* C35: a call of run() made while the instance is running returns at once *)
(* and changes nothing: no players are set up, no controller is called,    *)
(* nothing is announced and no cleanup is run, at whatever point of the    *)
(* running session the call is made; the running session goes on as it     *)
(* would have.                                                             *)
(***************************************************************************)
C35_SingleActiveSession ==
    [][(RunAgain /\ running) =>
          /\ fnOutcome' = ReturnedAtGuard
          /\ UNCHANGED sessionVars]_vars

(* the second call returned at the guard and the running session has since
   come to its result and settled *)
C35_Witness ==
    /\ fnOutcome = ReturnedAtGuard
    /\ pc = "settled" /\ result # NoResult /\ ~running

(* a step in which run() logs a result block *)
AnnouncesResult == PrintEarlyEndResult \/ PrintFinalScore

(* run() has resolved: nothing unwound its try block and every cleanup of
   its finally block resolved *)
RunResolved == pc = "settled" /\ error = "none" /\ ~running

(***************************************************************************)
(* C37: a session whose run() resolves has announced exactly one result    *)
(* block: a block is announced only when none has been, by                 *)
(* printEarlyEndResult when the rounds ended early and by printFinalScore  *)
(* when they did not, it is never replaced or followed by another, no      *)
(* run() resolves without one, and its winner is the spy or the civilians. *)
(***************************************************************************)
C37_ExactlyOneResult ==
    [][/\ AnnouncesResult =>
             /\ result = NoResult
             /\ result'.winner \in {"spy", "civilians"}
             /\ PrintEarlyEndResult <=> earlyEnd.ended
             /\ PrintFinalScore <=> ~earlyEnd.ended
       /\ result # NoResult => result' = result
       /\ RunResolved' =>
             /\ result' # NoResult
             /\ result'.winner \in {"spy", "civilians"}
             /\ earlyEnd.ended <=> result' \notin FinalScores]_vars

(* run() has resolved after an early end, with the one block of
   printEarlyEndResult and the civilians as winner *)
C37_Witness ==
    /\ RunResolved
    /\ earlyEnd.ended
    /\ result = printEarlyEndResult(earlyEnd) /\ result.winner = "civilians"

(* the lines of the stream that end a game *)
isTerminal(l) ==
    l = GameOverLine \/ \E e \in RejectionValues : l = ErrorLine(errorText(e))

(* the positions of the terminal lines in the stream *)
terminalPositions ==
    {i \in 1..Len(fnOutcome.stream) : isTerminal(fnOutcome.stream[i])}

(***************************************************************************)
(* C38: a game started through POST /api/start gets exactly one terminal   *)
(* line: none while run() is pending, and once handleStart has returned    *)
(* one, the last line of the stream, after everything the game sent:       *)
(* '[Game over.]' when run() resolved and '[Error: <message>]' when it     *)
(* rejected. The four callbacks are attached while run() is pending and    *)
(* all detached once handleStart has returned.                             *)
(***************************************************************************)
C38_ServerTerminalEvent ==
    fnArgs.kind = "serve" =>
        /\ fnOutcome.at = "awaits run" =>
              /\ terminalPositions = {}
              /\ fnOutcome.attached = Callbacks
        /\ fnOutcome.at = "returned" =>
              /\ terminalPositions = {Len(fnOutcome.stream)}
              /\ Len(fnOutcome.stream) = Len(fnArgs.emits) + 1
              /\ fnArgs.settles.kind = "resolved" =>
                    fnOutcome.stream[Len(fnOutcome.stream)] = GameOverLine
              /\ fnArgs.settles.kind = "rejected" =>
                    fnOutcome.stream[Len(fnOutcome.stream)]
                        = ErrorLine(errorText(fnArgs.settles.err))
              /\ fnOutcome.attached = {}

(* run() rejected with an Error after the game had logged two lines: the
   stream ends with the error line and the callbacks are detached *)
C38_Witness ==
    /\ fnArgs.kind = "serve" /\ fnOutcome.at = "returned"
    /\ fnArgs.settles.kind = "rejected" /\ fnArgs.settles.err.isError
    /\ fnArgs.emits = <<"log", "log">>
    /\ fnOutcome.stream = <<GameLine(1), GameLine(2), ErrorLine("quota exceeded")>>
    /\ fnOutcome.attached = {}

(***************************************************************************)
(* C39: a chatStateful made when no init has completed since the           *)
(* construction or the last return of cleanup fails with 'Provider not     *)
(* initialized' (one of the two ids is undefined then); a cleanup that     *)
(* has returned did not throw and left the thread id and the assistant id  *)
(* undefined, after a failed remote delete as well and on a provider that  *)
(* was not initialized (a repeated cleanup) as well; after it the provider *)
(* is uninitialized until an init completes.                               *)
(***************************************************************************)
C39_ProviderLifecycle ==
    fnArgs.kind = "provider" =>
        /\ ~fnOutcome.initDone => notInitialized(fnOutcome)
        /\ (fnOutcome.lastChat.called /\ ~fnOutcome.lastChat.initDone) =>
              fnOutcome.lastChat.outcome = NotInitialized
        /\ fnOutcome.lastCleanup.called =>
              /\ ~fnOutcome.lastCleanup.threw
              /\ fnOutcome.lastCleanup.threadId = Undefined
              /\ fnOutcome.lastCleanup.assistantId = Undefined

(* the cleanup of an initialized provider has returned after a remote
   delete failed, and a chatStateful made with no init completed failed
   with 'Provider not initialized' *)
C39_Witness ==
    /\ fnArgs.kind = "provider"
    /\ fnOutcome.lastCleanup.called
    /\ fnOutcome.lastCleanup.wasInitialized /\ fnOutcome.lastCleanup.deleteFailed
    /\ ~fnOutcome.initDone /\ fnOutcome.threadId = Undefined
    /\ fnOutcome.lastChat.called /\ ~fnOutcome.lastChat.initDone
    /\ fnOutcome.lastChat.outcome = NotInitialized

====
